---- MODULE Spec2Model ----
(***************************************************************************)
(* Email discovery engine: the validator, the per-company crawl, the batch *)
(* scheduler with its checkpoint store, and the queue worker's fan-out.    *)
(* Thirteen specifications share the module: SpecCompany (one company's    *)
(* crawl), Spec (a batch run), SpecCheckpoint (the checkpoint store and the*)
(* final report), SpecFetch (one call of fetch_website_content), SpecUpdate*)
(* (the merge of results into the input file), SpecSitemap (the sitemap    *)
(* fallback of a crawl), SpecSessions and SpecPool (the pool of HTTP       *)
(* sessions and its callers), SpecMonitor (the performance counters),      *)
(* SpecDirect (a file processed batch by batch), SpecJob (a queue worker's *)
(* job), SpecManager (the workers of a MultiWorkerManager) and SpecApi     *)
(* (the jobs of the HTTP API).                                             *)
(*                                                                         *)
(* Python strings are sequences of one-character strings, so that the      *)
(* string tests of the source (prefixes, suffixes, character classes,      *)
(* regular expressions) are computed, not assumed.  Python's None is the   *)
(* one-element sequence None, which no string equals.                      *)
(***************************************************************************)
EXTENDS Integers, Sequences, FiniteSets, TLC

None == <<"None">>

(***************************************************************************)
(* Character classes and the str/re primitives the source uses.            *)
(***************************************************************************)
Digit == {"0", "1", "2", "3", "4", "5", "6", "7", "8", "9"}
LowerSeq == <<"a", "b", "c", "d", "e", "f", "g", "h", "i", "j", "k", "l", "m", "n", "o", "p", "q", "r", "s", "t", "u", "v", "w", "x", "y", "z">>
UpperSeq == <<"A", "B", "C", "D", "E", "F", "G", "H", "I", "J", "K", "L", "M", "N", "O", "P", "Q", "R", "S", "T", "U", "V", "W", "X", "Y", "Z">>
LowerAlpha == {LowerSeq[i] : i \in 1..Len(LowerSeq)}
UpperAlpha == {UpperSeq[i] : i \in 1..Len(UpperSeq)}
Alpha == LowerAlpha \cup UpperAlpha
Alnum == Alpha \cup Digit
WordChar == Alnum \cup {"_"}
HexChar == {"a", "b", "c", "d", "e", "f", "A", "B", "C", "D", "E", "F"} \cup Digit
LocalChar == Alnum \cup {".", "_", "%", "+", "-"}
HostChar == Alnum \cup {".", "-"}

LowerChar(c) ==
    IF c \in UpperAlpha
    THEN LowerSeq[CHOOSE i \in 1..Len(UpperSeq) : UpperSeq[i] = c]
    ELSE c
Lower(s) == [i \in 1..Len(s) |-> LowerChar(s[i])]

StartsWith(s, p) == Len(s) >= Len(p) /\ SubSeq(s, 1, Len(p)) = p
EndsWith(s, p) == Len(s) >= Len(p) /\ SubSeq(s, Len(s) - Len(p) + 1, Len(s)) = p
Occurs(s, p) == {i \in 1..(Len(s) - Len(p) + 1) : SubSeq(s, i, i + Len(p) - 1) = p}
Contains(s, p) == Occurs(s, p) # {}
\* str.find, 1-based; 0 when p does not occur.
Find(s, p) == IF Contains(s, p) THEN CHOOSE i \in Occurs(s, p) : \A j \in Occurs(s, p) : i <= j ELSE 0
RFind(s, p) == IF Contains(s, p) THEN CHOOSE i \in Occurs(s, p) : \A j \in Occurs(s, p) : i >= j ELSE 0
Count(s, c) == Cardinality({i \in 1..Len(s) : s[i] = c})
AllIn(s, C) == \A i \in 1..Len(s) : s[i] \in C
\* A run of at least n consecutive characters of class C.
HasRun(s, C, n) == \E i \in 1..(Len(s) - n + 1) : \A j \in i..(i + n - 1) : s[j] \in C
From(s, i) == SubSeq(s, i, Len(s))
FirstNonSpace(s) == IF AllIn(s, {" "}) THEN Len(s) + 1 ELSE CHOOSE i \in 1..Len(s) : s[i] # " " /\ \A j \in 1..(i - 1) : s[j] = " "
LastNonSpace(s) == IF AllIn(s, {" "}) THEN 0 ELSE CHOOSE i \in 1..Len(s) : s[i] # " " /\ \A j \in (i + 1)..Len(s) : s[j] = " "
Strip(s) == SubSeq(s, FirstNonSpace(s), LastNonSpace(s))
\* The length of the longest suffix of s made of characters of class C.
TrailLen(s, C) == IF AllIn(s, C) THEN Len(s) ELSE Len(s) - (CHOOSE i \in 1..Len(s) : s[i] \notin C /\ \A j \in (i + 1)..Len(s) : s[j] \in C)

(***************************************************************************)
(* get_field_value and clean_url: from a raw record field to a Domain.     *)
(***************************************************************************)
NullWords == {<<"n", "a", "n">>, <<"n", "u", "l", "l">>, <<"n", "o", "n", "e">>}

\* A field of a record is None (null) or a string; a record may lack the
\* field.  The first variant that holds a usable value wins.
RECURSIVE get_field_value(_, _)
get_field_value(company_data, field_variants) ==
    IF field_variants = <<>> THEN None
    ELSE LET value == IF Head(field_variants) \in DOMAIN company_data THEN company_data[Head(field_variants)] ELSE None IN
         IF value # None /\ value # <<>> /\ Strip(value) # <<>> /\ Lower(Strip(value)) \notin NullWords
         THEN Strip(value)
         ELSE get_field_value(company_data, Tail(field_variants))

SOCIAL_MEDIA_DOMAINS == {<<"f", "a", "c", "e", "b", "o", "o", "k", ".", "c", "o", "m">>, <<"f", "b", ".", "c", "o", "m">>, <<"i", "n", "s", "t", "a", "g", "r", "a", "m", ".", "c", "o", "m">>, <<"t", "w", "i", "t", "t", "e", "r", ".", "c", "o", "m">>, <<"x", ".", "c", "o", "m">>, <<"l", "i", "n", "k", "e", "d", "i", "n", ".", "c", "o", "m">>, <<"y", "o", "u", "t", "u", "b", "e", ".", "c", "o", "m">>, <<"t", "i", "k", "t", "o", "k", ".", "c", "o", "m">>, <<"s", "n", "a", "p", "c", "h", "a", "t", ".", "c", "o", "m">>, <<"p", "i", "n", "t", "e", "r", "e", "s", "t", ".", "c", "o", "m">>, <<"w", "h", "a", "t", "s", "a", "p", "p", ".", "c", "o", "m">>, <<"t", "e", "l", "e", "g", "r", "a", "m", ".", "o", "r", "g">>, <<"d", "i", "s", "c", "o", "r", "d", ".", "c", "o", "m">>, <<"r", "e", "d", "d", "i", "t", ".", "c", "o", "m">>, <<"t", "u", "m", "b", "l", "r", ".", "c", "o", "m">>, <<"f", "l", "i", "c", "k", "r", ".", "c", "o", "m">>, <<"v", "i", "m", "e", "o", ".", "c", "o", "m">>, <<"d", "a", "i", "l", "y", "m", "o", "t", "i", "o", "n", ".", "c", "o", "m">>}

\* urllib.parse.unquote on the escapes that occur in host names and paths.
PercentCode(h) == CASE Lower(h) = <<"2", "e">> -> <<".">> [] Lower(h) = <<"2", "f">> -> <<"/">> [] Lower(h) = <<"3", "a">> -> <<":">> [] Lower(h) = <<"2", "0">> -> <<" ">> [] OTHER -> <<"%">> \o h
RECURSIVE unquote(_)
unquote(s) ==
    IF s = <<>> THEN <<>>
    ELSE IF s[1] = "%" /\ Len(s) >= 3 /\ s[2] \in HexChar /\ s[3] \in HexChar
         THEN PercentCode(SubSeq(s, 2, 3)) \o unquote(From(s, 4))
         ELSE <<s[1]>> \o unquote(Tail(s))

\* for prefix in ['www.', 'http.', 'https.']: drop it unless url starts with 'http'.
RECURSIVE remove_prefixes(_, _)
remove_prefixes(url, prefixes) ==
    IF prefixes = <<>> THEN url
    ELSE IF StartsWith(url, Head(prefixes)) /\ ~StartsWith(url, <<"h", "t", "t", "p">>)
         THEN remove_prefixes(From(url, Len(Head(prefixes)) + 1), Tail(prefixes))
         ELSE remove_prefixes(url, Tail(prefixes))

\* urlparse(url).netloc and .path of a url that starts with http:// or https://.
AfterScheme(url) == IF StartsWith(url, <<"h", "t", "t", "p", "s", ":", "/", "/">>) THEN From(url, 9) ELSE From(url, 8)
NetlocLen(rest) == IF \E i \in 1..Len(rest) : rest[i] \in {"/", "?", "#"} THEN (CHOOSE i \in 1..Len(rest) : rest[i] \in {"/", "?", "#"} /\ \A j \in 1..(i - 1) : rest[j] \notin {"/", "?", "#"}) - 1 ELSE Len(rest)
url_netloc(url) == SubSeq(AfterScheme(url), 1, NetlocLen(AfterScheme(url)))
url_path(url) == LET rest == From(AfterScheme(url), NetlocLen(AfterScheme(url)) + 1) IN IF rest # <<>> /\ rest[1] = "/" THEN rest ELSE <<>>

\* COMPILED_PATTERNS['domain_valid']: ^[a-zA-Z0-9.-]+\.[a-zA-Z]{2,}$
domain_valid(d) == \E i \in 2..(Len(d) - 2) : d[i] = "." /\ AllIn(SubSeq(d, 1, i - 1), HostChar) /\ AllIn(From(d, i + 1), Alpha)
\* ^\d+\.\d+\.\d+\.\d+$
is_ip_address(d) == /\ d # <<>> /\ AllIn(d, Digit \cup {"."}) /\ Count(d, ".") = 3 /\ d[1] # "." /\ d[Len(d)] # "." /\ ~Contains(d, <<".", ".">>)
strip_www(d) == IF StartsWith(d, <<"w", "w", "w", ".">>) THEN From(d, 5) ELSE d
\* re.sub(r':\d+$', '', domain)
strip_port(d) == LET k == TrailLen(d, Digit) IN IF k >= 1 /\ k < Len(d) /\ d[Len(d) - k] = ":" THEN SubSeq(d, 1, Len(d) - k - 1) ELSE d

clean_domain(domain0) ==
    LET domain == strip_port(strip_www(Lower(domain0))) IN
    IF domain \in SOCIAL_MEDIA_DOMAINS THEN None
    ELSE IF ~domain_valid(domain) THEN None
    ELSE IF Count(domain, ".") > 3 THEN None
    ELSE IF Len(domain) > 253 THEN None
    ELSE IF is_ip_address(domain) THEN None
    ELSE domain

clean_url(url0) ==
    IF url0 = None \/ url0 = <<>> THEN None
    ELSE LET url1 == Strip(url0) IN
    IF url1 = <<>> \/ Len(url1) < 4 THEN None
    ELSE LET url2 == IF Contains(url1, <<"?">>) THEN SubSeq(url1, 1, Find(url1, <<"?">>) - 1) ELSE url1
             url3 == remove_prefixes(unquote(url2), <<<<"w", "w", "w", ".">>, <<"h", "t", "t", "p", ".">>, <<"h", "t", "t", "p", "s", ".">>>>)
             has_protocol == StartsWith(url3, <<"h", "t", "t", "p", ":", "/", "/">>) \/ StartsWith(url3, <<"h", "t", "t", "p", "s", ":", "/", "/">>)
             looks_like_domain == (Contains(url3, <<".">>) /\ ~StartsWith(url3, <<"/">>)) \/ StartsWith(url3, <<"w", "w", "w", ".">>)
             url == IF has_protocol THEN url3 ELSE <<"h", "t", "t", "p", "s", ":", "/", "/">> \o url3
         IN
         IF ~has_protocol /\ ~looks_like_domain THEN None
         ELSE IF url_netloc(url) # <<>> THEN clean_domain(url_netloc(url))
         ELSE IF url_path(url) # <<>> /\ Contains(url_path(url), <<".">>)
              THEN clean_domain(SubSeq(url_path(url), 1, Find(url_path(url), <<"/">>) - 1))
              ELSE None

(***************************************************************************)
(* is_valid_email and clean_extracted_emails: the Validator.  Candidates   *)
(* reach it lower-cased by the extraction patterns; it takes the address   *)
(* alone, with no company domain.                                          *)
(***************************************************************************)
LocalPart(email) == SubSeq(email, 1, Find(email, <<"@">>) - 1)
HostPart(email) == From(email, Find(email, <<"@">>) + 1)
\* The text after the last dot of s; <<>> when s has no dot.
Tld(s) == IF Contains(s, <<".">>) THEN From(s, RFind(s, <<".">>) + 1) ELSE <<>>

\* COMPILED_PATTERNS['french_business']: ^(?:contact|info|...)@
FrenchBusinessPrefixes == {<<"c", "o", "n", "t", "a", "c", "t">>, <<"i", "n", "f", "o">>, <<"c", "o", "m", "m", "e", "r", "c", "i", "a", "l">>, <<"v", "e", "n", "t", "e">>, <<"v", "e", "n", "t", "e", "s">>, <<"d", "i", "r", "e", "c", "t", "i", "o", "n">>, <<"a", "c", "c", "u", "e", "i", "l">>, <<"s", "e", "c", "r", "e", "t", "a", "r", "i", "a", "t">>, <<"a", "d", "m", "i", "n", "i", "s", "t", "r", "a", "t", "i", "o", "n">>, <<"r", "h">>, <<"r", "e", "s", "s", "o", "u", "r", "c", "e", "s", "-", "h", "u", "m", "a", "i", "n", "e", "s">>, <<"c", "o", "m", "m", "u", "n", "i", "c", "a", "t", "i", "o", "n">>, <<"m", "a", "r", "k", "e", "t", "i", "n", "g">>, <<"s", "e", "r", "v", "i", "c", "e", "-", "c", "l", "i", "e", "n", "t">>, <<"s", "u", "p", "p", "o", "r", "t">>, <<"t", "e", "c", "h", "n", "i", "q", "u", "e">>, <<"c", "o", "m", "p", "t", "a", "b", "i", "l", "i", "t", "e">>, <<"f", "i", "n", "a", "n", "c", "e">>, <<"j", "u", "r", "i", "d", "i", "q", "u", "e">>}
FileExtensions == {<<"p", "n", "g">>, <<"j", "p", "g">>, <<"j", "p", "e", "g">>, <<"g", "i", "f">>, <<"s", "v", "g">>, <<"p", "d", "f">>, <<"d", "o", "c">>, <<"t", "x", "t">>, <<"c", "s", "s">>, <<"j", "s">>}
invalid_domains == {<<"s", "e", "n", "t", "r", "y", ".", "i", "o">>, <<"w", "i", "x", "p", "r", "e", "s", "s", ".", "c", "o", "m">>, <<"s", "e", "n", "t", "r", "y", "-", "n", "e", "x", "t", ".", "w", "i", "x", "p", "r", "e", "s", "s", ".", "c", "o", "m">>, <<"t", "e", "s", "t", ".", "c", "o", "m">>, <<"l", "o", "c", "a", "l", "h", "o", "s", "t">>, <<"t", "e", "s", "t", ".", "f", "r">>, <<"t", "e", "s", "t", ".", "n", "e", "t">>, <<"e", "x", "a", "m", "p", "l", "e", ".", "c", "o", "m">>, <<"f", "r", "a", "g", "e", "l", ".", "w", "i", "x", "p", "r", "e", "s", "s", ".", "c", "o", "m">>, <<"f", "r", "a", "g", "e", "l", ".", "i", "o">>}
invalid_tlds == {<<"p", "n", "g">>, <<"j", "p", "g">>, <<"j", "p", "e", "g">>, <<"g", "i", "f">>, <<"s", "v", "g">>, <<"b", "m", "p">>, <<"i", "c", "o">>, <<"w", "e", "b", "p">>, <<"p", "d", "f">>, <<"d", "o", "c">>, <<"d", "o", "c", "x">>, <<"t", "x", "t">>, <<"c", "s", "v">>, <<"t", "m", "p">>, <<"t", "e", "s", "t">>, <<"l", "o", "c", "a", "l", "h", "o", "s", "t">>, <<"i", "n", "t", "e", "r", "n", "a", "l">>}

\* The list fake_patterns, each applied with re.match to an address that
\* holds exactly one '@' (local part l, host part h).
fake_patterns(email) ==
    LET l == LocalPart(email)
        h == HostPart(email) IN
    \/ StartsWith(h, <<"s", "e", "n", "t", "r", "y">>) /\ Contains(From(h, 7), <<".", "w", "i", "x">>)
    \/ EndsWith(h, <<".", "w", "i", "x", "p", "r", "e", "s", "s", ".", "c", "o", "m">>)
    \/ StartsWith(h, <<"f", "r", "a", "g", "e", "l">>) /\ Contains(From(h, 7), <<".", "w", "i", "x">>)
    \/ StartsWith(h, <<"f", "r", "a", "g", "e", "l", ".">>)
    \/ Len(l) >= 16 /\ AllIn(l, HexChar)
    \/ Len(l) >= 20 /\ AllIn(l, Alnum)
    \/ HasRun(l, Digit, 10)
    \/ \E i \in Occurs(h, <<".", "c", "o", "m">>) : i + 4 <= Len(h) /\ h[i + 4] \in Alpha
    \/ Len(Tld(h)) >= 3 /\ Tld(h)[1] \in Alpha /\ Tld(h)[2] \in Alpha /\ AllIn(Tld(h), Alnum)
    \/ Contains(email, <<"n", "o", "r", "e", "p", "l", "y">>)
    \/ Contains(email, <<"n", "o", "-", "r", "e", "p", "l", "y">>)
    \/ Contains(email, <<"n", "e", "-", "p", "a", "s", "-", "r", "e", "p", "o", "n", "d", "r", "e">>)
    \/ h = <<"e", "x", "a", "m", "p", "l", "e", ".", "c", "o", "m">>
    \/ StartsWith(h, <<"t", "e", "s", "t", ".">>)
    \/ StartsWith(h, <<"l", "o", "c", "a", "l", "h", "o", "s", "t">>)
    \/ Contains(email, <<"m", "a", "i", "l", "e", "r", "-", "d", "a", "e", "m", "o", "n">>)
    \/ Tld(h) \in FileExtensions
    \/ l # <<>> /\ AllIn(l, Digit)

\* COMPILED_PATTERNS['email_main'].match:
\* \b[a-zA-Z0-9._%+-]{1,64}@[a-zA-Z0-9.-]+\.[a-zA-Z]{2,}\b
email_main_match(email) ==
    LET l == LocalPart(email)
        h == HostPart(email) IN
    /\ Len(l) >= 1 /\ Len(l) <= 64 /\ AllIn(l, LocalChar) /\ l[1] \in WordChar
    /\ \E i \in 2..Len(h) : \E j \in (i + 2)..Len(h) :
          /\ h[i] = "."
          /\ AllIn(SubSeq(h, 1, i - 1), HostChar)
          /\ AllIn(SubSeq(h, i + 1, j), Alpha)
          /\ (j = Len(h) \/ h[j + 1] \notin WordChar)

\* COMPILED_PATTERNS['ip_address'].search: @[0-9]+\.[0-9]+\.[0-9]+\.[0-9]+$
ip_address_host(email) == is_ip_address(HostPart(email))

is_valid_email(email0) ==
    LET email == Lower(Strip(email0)) IN
    IF email0 = None \/ email0 = <<>> THEN FALSE
    ELSE IF Count(email, "@") # 1 THEN FALSE
    ELSE LET local_part == LocalPart(email)
             domain_lower == Lower(HostPart(email))
             is_french_business == local_part \in FrenchBusinessPrefixes
             number_count == Cardinality({i \in 1..Len(local_part) : local_part[i] \in Digit})
         IN
         IF fake_patterns(email) THEN FALSE
         ELSE IF Tld(domain_lower) \in invalid_tlds \/ domain_lower \in invalid_domains THEN FALSE
         ELSE IF Contains(domain_lower, <<".", ".">>) \/ EndsWith(domain_lower, <<".">>) THEN FALSE
         ELSE IF ~Contains(domain_lower, <<".">>) THEN FALSE
         ELSE IF Tld(domain_lower) # <<>> /\ AllIn(Tld(domain_lower), Digit) THEN FALSE
         ELSE IF Len(local_part) >= 30 /\ AllIn(local_part, HexChar) THEN FALSE
         ELSE IF ~is_french_business /\ Len(local_part) > 30 THEN FALSE
         ELSE IF ~is_french_business /\ 10 * number_count > 6 * Len(local_part) THEN FALSE
         ELSE IF ~is_french_business /\ ip_address_host(email) THEN FALSE
         ELSE IF ~email_main_match(email) THEN FALSE
         ELSE IF Len(local_part) > 64 \/ Len(local_part) < 2 THEN FALSE
         ELSE IF Len(domain_lower) > 253 THEN FALSE
         ELSE IF ~is_french_business /\ Count(local_part, ".") > 3 THEN FALSE
         ELSE IF ~is_french_business /\ (StartsWith(local_part, <<".">>) \/ EndsWith(local_part, <<".">>)) THEN FALSE
         ELSE IF ~is_french_business /\ Contains(local_part, <<".", ".">>) THEN FALSE
         ELSE IF ~is_french_business /\ HasRun(local_part, Digit, 5) THEN FALSE
         ELSE TRUE

\* tld_pattern (\.[a-z]{2,4})([a-z]+)$ : a last dot followed by at least three
\* lower-case letters; group 1 takes up to four of them and leaves at least one.
truncate_after_tld(email) ==
    LET tld == Tld(email)
        g1 == IF Len(tld) - 1 < 4 THEN Len(tld) - 1 ELSE 4
        after_tld == From(tld, g1 + 1)
        valid_after_tld == {<<"c", "o", "m">>, <<"o", "r", "g">>, <<"n", "e", "t">>, <<"e", "d", "u">>, <<"g", "o", "v">>}
    IN IF Len(tld) >= 3 /\ AllIn(tld, LowerAlpha) /\ after_tld \notin valid_after_tld /\ Len(after_tld) > 4
       THEN SubSeq(email, 1, Len(email) - Len(after_tld))
       ELSE email
strip_suffix(s, p) == IF EndsWith(s, p) THEN SubSeq(s, 1, Len(s) - Len(p)) ELSE s
\* junk_patterns, applied in order: facebook$, atelier$, contact$, [0-9]+$
remove_junk(email) ==
    LET e3 == strip_suffix(strip_suffix(strip_suffix(email, <<"f", "a", "c", "e", "b", "o", "o", "k">>), <<"a", "t", "e", "l", "i", "e", "r">>), <<"c", "o", "n", "t", "a", "c", "t">>)
    IN SubSeq(e3, 1, Len(e3) - TrailLen(e3, Digit))
clean_one_email(email0) == remove_junk(truncate_after_tld(Lower(Strip(email0))))
\* The set of the list clean_extracted_emails returns (duplicates removed).
clean_extracted_emails(emails) ==
    {clean_one_email(x) : x \in {y \in emails : Lower(Strip(y)) # <<>> /\ is_valid_email(clean_one_email(y))}}

(***************************************************************************)
(* The per-company crawl.  A fetch outcome is what fetch_website_content   *)
(* hands back: content (None, or a page, given by the set of lower-cased   *)
(* candidates the extraction patterns match in it) and the error tags.     *)
(***************************************************************************)
RECURSIVE SetToSeq(_)
\* list(a_set): the elements in some fixed order.
SetToSeq(S) == IF S = {} THEN <<>> ELSE LET x == CHOOSE y \in S : TRUE IN <<x>> \o SetToSeq(S \ {x})
SeqToSet(s) == {s[i] : i \in 1..Len(s)}

\* Steps 4 of extract_emails_from_html: clean, then validate.  The domain
\* argument is accepted and not consulted.
extract_emails_from_html(html_content, domain) ==
    IF html_content.content = "none" THEN {}
    ELSE {e \in clean_extracted_emails(html_content.raw) : is_valid_email(e)}

\* The list test_urls of the sequential pass.
test_urls(domain) ==
    << [protocol |-> <<"h", "t", "t", "p", "s">>, host |-> domain, path |-> <<"/", "c", "o", "n", "t", "a", "c", "t">>, category |-> "contact_high"],
       [protocol |-> <<"h", "t", "t", "p", "s">>, host |-> domain, path |-> <<"/", "n", "o", "u", "s", "-", "c", "o", "n", "t", "a", "c", "t", "e", "r">>, category |-> "contact_high"],
       [protocol |-> <<"h", "t", "t", "p", "s">>, host |-> domain, path |-> <<>>, category |-> "main"],
       [protocol |-> <<"h", "t", "t", "p", "s">>, host |-> <<"w", "w", "w", ".">> \o domain, path |-> <<"/", "c", "o", "n", "t", "a", "c", "t">>, category |-> "contact_high"],
       [protocol |-> <<"h", "t", "t", "p", "s">>, host |-> <<"w", "w", "w", ".">> \o domain, path |-> <<>>, category |-> "main"],
       [protocol |-> <<"h", "t", "t", "p">>, host |-> domain, path |-> <<>>, category |-> "main"] >>
url_of(u) == u.protocol \o <<":", "/", "/">> \o u.host \o u.path

\* The locals of discover_emails_for_domain at its start.
discover_locals == [all_emails |-> {}, pages_accessed |-> <<>>, successful_categories |-> {}, stats |-> {}]

\* One pass of the loop over test_urls, for the outcome of its fetch and the
\* emails extract_emails_from_html finds in the content.
sequential_step(d, u, outcome, emails) ==
    IF outcome.content # "none" /\ emails # {}
    THEN [d EXCEPT !.all_emails = @ \cup emails,
                   !.pages_accessed = Append(@, url_of(u)),
                   !.successful_categories = @ \cup {u.category}]
    ELSE [d EXCEPT !.stats = @ \cup outcome.errors]

\* The locals of discover_emails_via_sitemap once priority_urls is known.
sitemap_locals(priority_urls) == [all_emails |-> {}, pages_accessed |-> <<>>, pending |-> priority_urls]

\* process_url and the body of the loop over as_completed(futures), for the
\* future of url, the outcome of its fetch and the emails extracted; the url
\* joins pages_accessed whatever its fetch returned (line 1249).
sitemap_step(s, url, outcome, emails) ==
    [s EXCEPT !.pages_accessed = Append(@, url),
              !.all_emails = @ \cup emails,
              !.pending = @ \ {url}]

\* Lines 1387-1389: the sitemap's emails and pages join the locals.
merge_sitemap(d, s) ==
    [d EXCEPT !.all_emails = @ \cup s.all_emails, !.pages_accessed = @ \o s.pages_accessed]

\* The method is taken from the categories alone, without the early return
\* of line 1395 for emails of the sitemap fallback.
discovery_method_by_category(d, sitemap_emails) ==
    IF d.all_emails # {}
    THEN IF "main" \in d.successful_categories THEN "web_main"
         ELSE IF d.successful_categories \cap {"contact_high", "contact_medium"} # {} THEN "web_contact"
         ELSE IF "about" \in d.successful_categories THEN "web_about"
         ELSE "web_other"
    ELSE "not_found"

\* The method discover_emails_for_domain returns; sitemap_emails is the
\* set the fallback returned ({} when it did not run).
discovery_method(d, sitemap_emails) ==
    IF sitemap_emails # {} THEN "sitemap"
    ELSE IF d.all_emails # {}
         THEN IF "main" \in d.successful_categories THEN "web_main"
              ELSE IF d.successful_categories \cap {"contact_high", "contact_medium"} # {} THEN "web_contact"
              ELSE IF "about" \in d.successful_categories THEN "web_about"
              ELSE "web_other"
         ELSE "not_found"

NameFields == <<"name", "company_name", "raw_name", "business_name">>
WebsiteFields == <<"website", "domain", "url", "website_url", "site_web">>
company_name_of(company_data) == get_field_value(company_data, NameFields)
website_of(company_data) == get_field_value(company_data, WebsiteFields)
\* The domain taken from the raw website when clean_url rejects it.
domain_of_fallback(company_data) ==
    IF website_of(company_data) = None THEN None
    ELSE IF clean_url(website_of(company_data)) # None THEN clean_url(website_of(company_data))
    ELSE Lower(website_of(company_data))

\* domain = clean_url(website) if website else None
domain_of(company_data) == IF website_of(company_data) # None THEN clean_url(website_of(company_data)) ELSE None

\* The result process_single_company_worker builds for a resolved domain.
domain_result(company_data, domain, d, method) ==
    [name |-> company_name_of(company_data), domain |-> domain, website |-> website_of(company_data),
     emails_found |-> SetToSeq(d.all_emails), discovery_method |-> method,
     success |-> Cardinality(d.all_emails) > 0, pages_accessed |-> d.pages_accessed]
\* ... and for a record with no domain.
no_domain_result(company_data) ==
    [name |-> company_name_of(company_data), domain |-> None, website |-> website_of(company_data),
     emails_found |-> <<>>, discovery_method |-> "no_domain",
     success |-> FALSE, pages_accessed |-> <<>>]

(***************************************************************************)
(* Inputs of the model: company records, and what the network answers.     *)
(***************************************************************************)
CompanyRecords ==
    { [name |-> <<"A">>, website |-> <<"a", "c", "m", "e", ".", "f", "r">>],
      [name |-> <<"A">>, website |-> <<"h", "t", "t", "p", "s", ":", "/", "/", "w", "w", "w", ".", "a", "c", "m", "e", ".", "f", "r", ":", "8", "0", "8", "0", "/", "c", "o", "n", "t", "a", "c", "t", "?", "u", "t", "m", "=", "1">>],
      [name |-> <<"A">>, website |-> <<"a", "c", "m", "e", ".", "c", "o", "m">>],
      [name |-> <<"A">>, website |-> None, domain |-> <<"a", "c", "m", "e", ".", "f", "r">>],
      [name |-> <<"A">>, website |-> None],
      [name |-> <<"A">>, website |-> <<>>],
      [name |-> <<"A">>, website |-> <<"n", "a", "n">>],
      [name |-> <<"A">>],
      [name |-> <<"A">>, website |-> <<"a", "b", "c">>],
      [name |-> <<"A">>, website |-> <<"f", "a", "c", "e", "b", "o", "o", "k", ".", "c", "o", "m">>],
      [name |-> <<"A">>, website |-> <<"1", ".", "2", ".", "3", ".", "4">>] }

\* The candidate sets of the pages a site of this domain may serve.
PageSamples(domain) ==
    { {},
      {<<"i", "n", "f", "o", "@", "m", "a", "i", "l", ".">> \o domain},
      {<<"c", "o", "n", "t", "a", "c", "t", "@">> \o domain, <<"s", "u", "p", "p", "o", "r", "t", "@", "p", "l", "a", "t", "f", "o", "r", "m", "h", "o", "s", "t", ".", "i", "o">>},
      {<<"n", "o", "r", "e", "p", "l", "y", "@">> \o domain, <<"a", "1", "b", "2", "c", "3", "d", "4", "e", "5", "f", "6", "a", "7", "b", "8", "@">> \o domain} }
\* fetch_website_content returns no content and its error tags, or a page
\* (here: the address candidates the page holds).
failed_fetch == [content |-> "none", raw |-> {}, errors |-> {"error_timeout"}]
page_with(candidates) == [content |-> "page", raw |-> candidates, errors |-> {}]
FetchOutcomes(domain) == {failed_fetch} \cup {page_with(r) : r \in PageSamples(domain)}

\* The address candidates of a page that yielded emails ({} for any other
\* fetch), kept with the fetch in fetch_log.
yielding_page(outcome, emails) == IF emails # {} THEN outcome.raw ELSE {}

\* extract_emails_from_html is pure: its values on the pages of a domain are
\* computed once, when the domain is resolved, and looked up afterwards.
ExtractionOf(d) == IF d = None THEN <<>> ELSE [o \in FetchOutcomes(d) |-> extract_emails_from_html(o, d)]

\* The most pages the model lets a sitemap rank (the source fetches up to 8).
MaxSitemapPages == 2
SitemapPages(domain) == {<<"h", "t", "t", "p", "s", ":", "/", "/">> \o domain \o <<"/", "p">> \o <<LowerSeq[i]>> : i \in 1..MaxSitemapPages}

(***************************************************************************)
(* process_single_company_worker as a function of what the network serves. *)
(***************************************************************************)
\* What a site serves during one crawl: the outcome of each candidate's
\* fetch, whether the sitemap lookup runs into its timeout, and the ranked
\* sitemap pages with the outcome of their fetch.
CrawlEnvs(domain) ==
    { [pages |-> <<page_with({<<"c", "o", "n", "t", "a", "c", "t", "@">> \o domain, <<"s", "u", "p", "p", "o", "r", "t", "@", "p", "l", "a", "t", "f", "o", "r", "m", "h", "o", "s", "t", ".", "i", "o">>}), failed_fetch, failed_fetch, failed_fetch, failed_fetch, failed_fetch>>,
       sitemap_timeout |-> FALSE, sitemap |-> <<>>],
      [pages |-> <<failed_fetch, failed_fetch, failed_fetch, failed_fetch, failed_fetch, failed_fetch>>,
       sitemap_timeout |-> FALSE, sitemap |-> <<>>],
      [pages |-> <<failed_fetch, failed_fetch, failed_fetch, failed_fetch, failed_fetch, failed_fetch>>,
       sitemap_timeout |-> TRUE, sitemap |-> <<>>] }

\* The loop over test_urls from candidate i on.
RECURSIVE run_sequential(_, _, _, _)
run_sequential(d, domain, i, env) ==
    IF i > Len(test_urls(domain)) \/ d.all_emails # {} THEN d
    ELSE run_sequential(sequential_step(d, test_urls(domain)[i], env.pages[i], extract_emails_from_html(env.pages[i], domain)),
                        domain, i + 1, env)

\* The loop over the futures of the priority urls.
RECURSIVE run_sitemap(_, _, _)
run_sitemap(s, domain, pages) ==
    IF pages = <<>> THEN s
    ELSE run_sitemap(sitemap_step(s, Head(pages).url, Head(pages).outcome, extract_emails_from_html(Head(pages).outcome, domain)),
                     domain, Tail(pages))

\* The worker's return value, or the exception that leaves it.
no_result == [name |-> None]
returned(result) == [raised |-> FALSE, result |-> result]
raised_exception == [raised |-> TRUE, result |-> no_result]
process_single_company_worker(company_data, env) ==
    LET domain == domain_of(company_data)
        d == run_sequential(discover_locals, domain, 1, env)
        s == run_sitemap(sitemap_locals({}), domain, env.sitemap)
        merged == merge_sitemap(d, s)
    IN  IF domain = None THEN returned(no_domain_result(company_data))
        ELSE IF d.all_emails # {} THEN returned(domain_result(company_data, domain, d, discovery_method(d, {})))
        ELSE IF env.sitemap_timeout THEN raised_exception
        ELSE returned(domain_result(company_data, domain, merged, discovery_method(merged, s.all_emails)))
worker_outcomes(company_data) ==
    IF domain_of(company_data) = None
    THEN {returned(no_domain_result(company_data))}
    ELSE {process_single_company_worker(company_data, env) : env \in CrawlEnvs(domain_of(company_data))}

(***************************************************************************)
(* The checkpoint store: save_progress_csv and find_latest_progress_file.  *)
(***************************************************************************)
\* Buffer until 500 results or completion (save_progress_csv).
CheckpointEvery == 500
\* Cap at 200 for stability (process_files).
WorkerCap == 200

RECURSIVE Join(_, _)
Join(strs, sep) ==
    IF strs = <<>> THEN <<>>
    ELSE IF Len(strs) = 1 THEN strs[1]
    ELSE strs[1] \o sep \o Join(Tail(strs), sep)
RECURSIVE Split(_, _)
Split(s, c) ==
    IF ~Contains(s, <<c>>) THEN <<s>>
    ELSE <<SubSeq(s, 1, Find(s, <<c>>) - 1)>> \o Split(From(s, Find(s, <<c>>) + 1), c)
NonEmpty(s) == s # <<>>

\* csv.DictWriter writes None as the empty field and a bool by its name.
csv_field(v) == IF v = None THEN <<>> ELSE v
csv_bool(b) == IF b THEN <<"T", "r", "u", "e">> ELSE <<"F", "a", "l", "s", "e">>
checkpoint_row(result) ==
    [name |-> csv_field(result.name), domain |-> csv_field(result.domain), website |-> csv_field(result.website),
     emails_found |-> IF result.emails_found # <<>> THEN Join(result.emails_found, <<",", " ">>) ELSE <<>>,
     discovery_method |-> result.discovery_method, success |-> csv_bool(result.success),
     pages_accessed |-> IF result.pages_accessed # <<>> THEN Join(result.pages_accessed, <<";", " ">>) ELSE <<>>]

\* A checkpoint file: its batch number and cumulative count (in its name),
\* its rows, and other_names, the number of distinct names of its rows for
\* companies that are not in the input at hand.
checkpoint_file(results, batch_number, total_processed) ==
    [batch |-> batch_number, total |-> total_processed,
     rows |-> [i \in 1..Len(results) |-> checkpoint_row(results[i])], other_names |-> 0]
\* The directory after save_progress_csv: nothing is written before 500
\* results are buffered unless the cumulative count is a multiple of 500.
save_progress_csv(results, output_dir, batch_number, total_processed) ==
    IF Len(results) < CheckpointEvery /\ total_processed % CheckpointEvery # 0
    THEN output_dir
    ELSE Append(output_dir, checkpoint_file(results, batch_number, total_processed))

\* [e.strip() for e in emails_str.split(',') if e.strip()]
split_emails(emails_str) ==
    IF emails_str = <<>> THEN <<>>
    ELSE SelectSeq([i \in 1..Len(Split(emails_str, ",")) |-> Strip(Split(emails_str, ",")[i])], NonEmpty)

\* A field as csv.DictReader hands it over: the file is opened in text mode
\* without newline='', so a carriage return inside a quoted field, alone or
\* before a line feed, is read as one line feed.
RECURSIVE csv_read(_)
csv_read(field) ==
    IF field = <<>> THEN <<>>
    ELSE IF Head(field) = "\r"
         THEN <<"\n">> \o csv_read(IF Len(field) > 1 /\ field[2] = "\n" THEN Tail(Tail(field)) ELSE Tail(field))
         ELSE <<Head(field)>> \o csv_read(Tail(field))
read_row(row) == [row EXCEPT !.name = csv_read(row.name), !.website = csv_read(row.website)]
RECURSIVE all_rows(_)
all_rows(output_dir) ==
    IF output_dir = <<>> THEN <<>>
    ELSE SelectSeq([i \in 1..Len(Head(output_dir).rows) |-> read_row(Head(output_dir).rows[i])],
                   LAMBDA row : row.name # <<>>) \o all_rows(Tail(output_dir))
RECURSIVE other_names(_)
other_names(output_dir) ==
    IF output_dir = <<>> THEN 0 ELSE Head(output_dir).other_names + other_names(Tail(output_dir))
RECURSIVE count_emails(_)
count_emails(rows) ==
    IF rows = <<>> THEN 0 ELSE Len(split_emails(Head(rows).emails_found)) + count_emails(Tail(rows))
\* latest_file is the file written last; the names, rows and email count
\* come from every file of the directory.
find_latest_progress_file(output_dir) ==
    IF output_dir = <<>>
    THEN [latest_file |-> FALSE, companies_count |-> 0, processed_names |-> {}, total_emails_found |-> 0,
          next_batch_number |-> 1, previous_results |-> <<>>]
    ELSE [latest_file |-> TRUE,
          companies_count |-> Cardinality(SeqToSet([i \in 1..Len(all_rows(output_dir)) |-> all_rows(output_dir)[i].name])) + other_names(output_dir),
          processed_names |-> SeqToSet([i \in 1..Len(all_rows(output_dir)) |-> all_rows(output_dir)[i].name]),
          total_emails_found |-> count_emails(all_rows(output_dir)),
          next_batch_number |-> output_dir[Len(output_dir)].batch + 1,
          previous_results |-> all_rows(output_dir)]

\* A previous result in the shape the run works with: the email list is
\* parsed again and success follows it (lines 1664-1669).
restore_row_keep_success(prev_result) ==
    [prev_result EXCEPT !.emails_found = split_emails(prev_result.emails_found),
                        !.success = prev_result.success # <<>>]
restore_row(prev_result) ==
    [prev_result EXCEPT !.emails_found = split_emails(prev_result.emails_found),
                        !.success = Len(split_emails(prev_result.emails_found)) > 0]

\* effective_workers = min(workers, total_companies, 200)
Min(a, b) == IF a <= b THEN a ELSE b
one_thread_per_company(workers, total_companies) == total_companies
effective_workers(workers, total_companies) == Min(workers, Min(total_companies, WorkerCap))

(***************************************************************************)
(* Inputs of a batch run.                                                  *)
(***************************************************************************)
\* The most companies an input file of the model holds.
MaxCompanies == 2
\* The largest worker count and batch size the model requests.
MaxWorkers == 2
MaxBatchSize == 2
\* The most runs over one output directory.
MaxRuns == 2

Websites == <<<<"a", "c", "m", "e", ".", "f", "r">>, None, <<"h", "t", "t", "p", "s", ":", "/", "/", "w", "w", "w", ".", "e", "x", "e", "m", "p", "l", "e", ".", "f", "r", "/">>>>
company_at(i) == [name |-> <<UpperSeq[i]>>, website |-> Websites[((i - 1) % Len(Websites)) + 1]]
InputFiles == {[i \in 1..n |-> company_at(i)] : n \in 1..MaxCompanies}
\* The output directory before the first run: empty, or one checkpoint of
\* an earlier run over other companies: 500 rows, two of them or one for
\* a name the file already holds.
PriorDirs ==
    {<<>>} \cup {<<[batch |-> 1, total |-> CheckpointEvery, rows |-> <<>>, other_names |-> n]>> :
                    n \in {CheckpointEvery - 2, CheckpointEvery - 1}}
Modes == {"process_files", "process_files_with_callback", "process_file"}
\* --limit; 0 stands for no limit (None).
MaxLimit == 1

VARIABLES company, cpc, domain, extracted, idx, disc, smap, fetch_log, sitemap_ran, cresults

VARIABLES mode, workers, batch_size, max_hours, limit, resume, input_file, worker_table, output_dir,
          run, pc, clock, stop, futures, finished_q, all_companies,
          all_results, restored_count, current_batch_results,
          current_session_count, total_processed_count, total_emails_found, batch_number,
          progress, semaphore, batch_start, late_starts, first_run_normal

company_vars == <<company, cpc, domain, extracted, idx, disc, smap, fetch_log, sitemap_ran, cresults>>
config_vars == <<mode, workers, batch_size, max_hours, limit, input_file, worker_table>>
loop_vars == <<all_results, restored_count, current_batch_results, current_session_count,
               total_processed_count, total_emails_found, batch_number, progress>>
batch_vars == <<config_vars, resume, output_dir, run, pc, clock, stop, futures, finished_q, all_companies,
                loop_vars, semaphore, batch_start, late_starts, first_run_normal>>

\* The checkpoint store on its own: batches handed to save_progress_csv and
\* the answer of find_latest_progress_file.
VARIABLES progress_dir, saved, resume_info, ck_pc
checkpoint_vars == <<progress_dir, saved, resume_info, ck_pc>>
checkpoint_idle == progress_dir = <<>> /\ saved = <<>> /\ resume_info = <<>> /\ ck_pc = "idle"

\* One call of fetch_website_content: the session's User-Agent, the position
\* in the attempt loop, the requests sent and the pair handed back.
no_header == [present |-> FALSE, text |-> "", numeric |-> FALSE, value |-> 0]
response_of(status, content_length, body, content_type, markup) ==
    [status |-> status, content_length |-> content_length, body |-> body, content_type |-> content_type,
     markup |-> markup]
no_response == response_of(0, no_header, 0, "", FALSE)
no_content == [none |-> TRUE, length |-> 0, complete |-> TRUE]
VARIABLES f_pc, f_url, max_retries, redirects, user_agent, attempt, f_errors, request_log, f_content, f_response
fetch_vars == <<f_pc, f_url, max_retries, redirects, user_agent, attempt, f_errors, request_log, f_content, f_response>>
fetch_idle ==
    /\ f_pc = "idle" /\ f_url = [scheme |-> "https", host |-> "a.fr"] /\ max_retries = 0
    /\ redirects = [h \in {"a.fr", "b.fr"} |-> "none"] /\ user_agent = "" /\ attempt = 0 /\ f_errors = <<>>
    /\ request_log = <<>> /\ f_content = no_content /\ f_response = no_response


\* update_file_with_results: the file, the results merged into it, and the
\* content before each application.
VARIABLES file_ext, file_content, update_results, applications, content_history
update_vars == <<file_ext, file_content, update_results, applications, content_history>>
update_idle ==
    /\ file_ext = ".ndjson" /\ file_content = <<>> /\ update_results = <<>> /\ applications = 0
    /\ content_history = <<>>

\* The sitemap fallback: the walk over the sitemaps and the ranked pages.
VARIABLES sm_pc, site, crawl_env, sitemap_urls, parse_stack, sitemap_requests, all_urls, unique_urls,
          url_scores, sm_priority_urls, crawl_fetches
sitemap_vars == <<sm_pc, site, crawl_env, sitemap_urls, parse_stack, sitemap_requests, all_urls, unique_urls,
                  url_scores, sm_priority_urls, crawl_fetches>>
sitemap_idle ==
    /\ sm_pc = "idle" /\ site = <<>> /\ crawl_env = <<>> /\ sitemap_urls = <<>> /\ parse_stack = <<>>
    /\ sitemap_requests = <<>> /\ all_urls = <<>> /\ unique_urls = <<>> /\ url_scores = <<>>
    /\ sm_priority_urls = <<>> /\ crawl_fetches = <<>>

\* HTTPSessionManager: the sessions in its queue, those handed out, and
\* those a caller is about to put back.
VARIABLES sessions, checked_out, putting
session_vars == <<sessions, checked_out, putting>>
session_idle == sessions = 0 /\ checked_out = 0 /\ putting = 0

\* The callers of the session manager: the manager's limit, its queue of
\* sessions (each a number), the sessions made and closed so far, and each
\* calling thread with the session it holds.
VARIABLES pool_limit, idle_pool, made, closed, caller
pool_vars == <<pool_limit, idle_pool, made, closed, caller>>
pool_idle == pool_limit = 0 /\ idle_pool = <<>> /\ made = 0 /\ closed = {} /\ caller = <<>>

\* PerformanceMonitor with monitoring enabled: its two counters, the worker
\* threads inside record_company_processing, and the calls made so far.
VARIABLES total_count, success_count, recording, record_calls
monitor_vars == <<total_count, success_count, recording, record_calls>>
monitor_idle == total_count = 0 /\ success_count = 0 /\ recording = <<>> /\ record_calls = <<>>

\* EmailWorker.process_file_directly: the file and its type, the batch size
\* of the job, the start of the next batch, and the valid results so far.
VARIABLES direct_ext, direct_file, direct_batch_size, direct_i, valid_results
direct_vars == <<direct_ext, direct_file, direct_batch_size, direct_i, valid_results>>
direct_idle ==
    /\ direct_ext = "" /\ direct_file = <<>> /\ direct_batch_size = 0 /\ direct_i = 0
    /\ valid_results = <<>>

\* A queue worker handling one message of the email-jobs topic: the class
\* of the worker, the job of the message, the position in process_job, the
\* file reached, what the worker sent and did, and the progress updates.
VARIABLES worker_class, job_data, job_pc, file_index, job_events, progress_updates
job_vars == <<worker_class, job_data, job_pc, file_index, job_events, progress_updates>>
job_idle ==
    /\ worker_class = "" /\ job_data = <<>> /\ job_pc = "idle" /\ file_index = 0
    /\ job_events = <<>> /\ progress_updates = <<>>

\* The rows generate_final_report wrote for the results of a resumed run.
VARIABLES final_report
report_vars == <<final_report>>
report_idle == final_report = <<>>

\* MultiWorkerManager: the email-jobs topic, the committed offset of each
\* consumer group, the job each worker is processing, and the workers that
\* have taken each job.
VARIABLES topic, offsets, handling, taken_by
manager_vars == <<topic, offsets, handling, taken_by>>
manager_idle == topic = <<>> /\ offsets = <<>> /\ handling = <<>> /\ taken_by = <<>>

\* The API (app.py): the jobs of active_jobs, and for each job the state of
\* the request handler that registered it and of its background task.
VARIABLES active_jobs, handlers, tasks
api_vars == <<active_jobs, handlers, tasks>>
api_idle == active_jobs = <<>> /\ handlers = <<>> /\ tasks = <<>>

sitemap_others == <<session_vars, pool_vars, monitor_vars, direct_vars, job_vars, report_vars, manager_vars, api_vars>>
sitemap_others_idle == session_idle /\ pool_idle /\ monitor_idle /\ direct_idle /\ job_idle /\ report_idle /\ manager_idle /\ api_idle
session_others == <<sitemap_vars, pool_vars, monitor_vars, direct_vars, job_vars, report_vars, manager_vars, api_vars>>
session_others_idle == sitemap_idle /\ pool_idle /\ monitor_idle /\ direct_idle /\ job_idle /\ report_idle /\ manager_idle /\ api_idle
pool_others == <<sitemap_vars, session_vars, monitor_vars, direct_vars, job_vars, report_vars, manager_vars, api_vars>>
pool_others_idle == sitemap_idle /\ session_idle /\ monitor_idle /\ direct_idle /\ job_idle /\ report_idle /\ manager_idle /\ api_idle
monitor_others == <<sitemap_vars, session_vars, pool_vars, direct_vars, job_vars, report_vars, manager_vars, api_vars>>
monitor_others_idle == sitemap_idle /\ session_idle /\ pool_idle /\ direct_idle /\ job_idle /\ report_idle /\ manager_idle /\ api_idle
direct_others == <<sitemap_vars, session_vars, pool_vars, monitor_vars, job_vars, report_vars, manager_vars, api_vars>>
direct_others_idle == sitemap_idle /\ session_idle /\ pool_idle /\ monitor_idle /\ job_idle /\ report_idle /\ manager_idle /\ api_idle
job_others == <<sitemap_vars, session_vars, pool_vars, monitor_vars, direct_vars, report_vars, manager_vars, api_vars>>
job_others_idle == sitemap_idle /\ session_idle /\ pool_idle /\ monitor_idle /\ direct_idle /\ report_idle /\ manager_idle /\ api_idle
report_others == <<sitemap_vars, session_vars, pool_vars, monitor_vars, direct_vars, job_vars, manager_vars, api_vars>>
report_others_idle == sitemap_idle /\ session_idle /\ pool_idle /\ monitor_idle /\ direct_idle /\ job_idle /\ manager_idle /\ api_idle
manager_others == <<sitemap_vars, session_vars, pool_vars, monitor_vars, direct_vars, job_vars, report_vars, api_vars>>
manager_others_idle == sitemap_idle /\ session_idle /\ pool_idle /\ monitor_idle /\ direct_idle /\ job_idle /\ report_idle /\ api_idle
api_others == <<sitemap_vars, session_vars, pool_vars, monitor_vars, direct_vars, job_vars, report_vars, manager_vars>>
api_others_idle == sitemap_idle /\ session_idle /\ pool_idle /\ monitor_idle /\ direct_idle /\ job_idle /\ report_idle /\ manager_idle
later_vars == <<sitemap_vars, session_vars, pool_vars, monitor_vars, direct_vars, job_vars, report_vars, manager_vars, api_vars>>
later_idle == sitemap_idle /\ session_idle /\ pool_idle /\ monitor_idle /\ direct_idle /\ job_idle /\ report_idle /\ manager_idle /\ api_idle
other_vars == <<checkpoint_vars, fetch_vars, update_vars, later_vars>>
other_idle == checkpoint_idle /\ fetch_idle /\ update_idle /\ later_idle
vars == <<company_vars, batch_vars, other_vars>>
early_vars == <<company_vars, batch_vars, checkpoint_vars, fetch_vars, update_vars>>

\* No batch is running.
batch_idle ==
    /\ mode = "process_files" /\ workers = 1 /\ batch_size = 1 /\ max_hours = FALSE /\ limit = 0
    /\ resume = FALSE
    /\ input_file = <<>> /\ worker_table = <<>> /\ output_dir = <<>>
    /\ run = 1 /\ pc = "idle" /\ clock = 0 /\ stop = "no" /\ futures = <<>> /\ finished_q = <<>>
    /\ all_companies = <<>> /\ all_results = <<>> /\ restored_count = 0 /\ current_batch_results = <<>>
    /\ current_session_count = 0 /\ total_processed_count = 0 /\ total_emails_found = 0 /\ batch_number = 1
    /\ progress = <<>> /\ semaphore = 0 /\ batch_start = 1 /\ late_starts = 0 /\ first_run_normal = FALSE

(***************************************************************************)
(* process_single_company_worker, one step per network call.               *)
(***************************************************************************)
InitCompany ==
    /\ company \in CompanyRecords
    /\ cpc = "start"
    /\ domain = None
    /\ extracted = <<>>
    /\ idx = 1
    /\ disc = discover_locals
    /\ smap = sitemap_locals({})
    /\ fetch_log = <<>>
    /\ sitemap_ran = FALSE
    /\ cresults = <<>>
    /\ batch_idle
    /\ other_idle

\* Field extraction and clean_url; a record with no domain is answered at once.
ResolveDomain ==
    /\ cpc = "start"
    /\ domain' = domain_of(company)
    /\ extracted' = ExtractionOf(domain')
    /\ IF domain' # None
       THEN cpc' = "sequential" /\ cresults' = cresults
       ELSE cpc' = "done" /\ cresults' = <<no_domain_result(company)>>
    /\ UNCHANGED <<company, idx, disc, smap, fetch_log, sitemap_ran, batch_vars, other_vars>>

\* The loop over test_urls without its early exit: the next candidate is
\* fetched although an earlier one already yielded.
FetchCandidateNoBreak ==
    /\ cpc = "sequential"
    /\ idx <= Len(test_urls(domain))
    /\ \E outcome \in FetchOutcomes(domain) :
          LET u == test_urls(domain)[idx] IN
          /\ disc' = sequential_step(disc, u, outcome, extracted[outcome])
          /\ fetch_log' = Append(fetch_log, [url |-> url_of(u), usable |-> outcome.content # "none",
                                             yielded |-> extracted[outcome] # {}, phase |-> "sequential",
                                             page |-> yielding_page(outcome, extracted[outcome])])
    /\ idx' = idx + 1
    /\ UNCHANGED <<company, cpc, domain, extracted, smap, sitemap_ran, cresults, batch_vars, other_vars>>

\* The next candidate of test_urls is fetched and its page searched.
FetchCandidate ==
    /\ cpc = "sequential"
    /\ idx <= Len(test_urls(domain))
    /\ disc.all_emails = {}
    /\ \E outcome \in FetchOutcomes(domain) :
          LET u == test_urls(domain)[idx] IN
          /\ disc' = sequential_step(disc, u, outcome, extracted[outcome])
          /\ fetch_log' = Append(fetch_log, [url |-> url_of(u), usable |-> outcome.content # "none",
                                             yielded |-> extracted[outcome] # {}, phase |-> "sequential",
                                             page |-> yielding_page(outcome, extracted[outcome])])
    /\ idx' = idx + 1
    /\ UNCHANGED <<company, cpc, domain, extracted, smap, sitemap_ran, cresults, batch_vars, other_vars>>

\* The loop over test_urls has ended: the list is used up, or a candidate
\* yielded and the loop was left by its break.
loop_over == idx > Len(test_urls(domain)) \/ disc.all_emails # {}
\* The fallback is started whatever the sequential pass found.
sitemap_always(d) == TRUE
\* Line 1386: `if not all_emails` guards the sitemap fallback.
sitemap_needed(d) == d.all_emails = {}

\* The sequential pass found emails: the method is set and the result built.
FinishWeb ==
    /\ cpc = "sequential"
    /\ loop_over
    /\ ~sitemap_needed(disc)
    /\ cpc' = "done"
    /\ cresults' = <<domain_result(company, domain, disc, discovery_method(disc, {}))>>
    /\ UNCHANGED <<company, domain, extracted, idx, disc, smap, fetch_log, sitemap_ran, batch_vars, other_vars>>

\* No candidate yielded: discover_emails_via_sitemap starts.  Looking the
\* sitemaps up may run into the timeout of as_completed (raised), find
\* none, or end with the ranked priority_urls.
SitemapLookup ==
    /\ cpc = "sequential"
    /\ loop_over
    /\ sitemap_needed(disc)
    /\ sitemap_ran' = TRUE
    /\ \/ /\ cpc' = "raised"
          /\ UNCHANGED <<smap, cresults>>
       \/ /\ cpc' = "done"
          /\ cresults' = <<domain_result(company, domain, disc, discovery_method(disc, {}))>>
          /\ UNCHANGED smap
       \/ \E priority_urls \in SUBSET SitemapPages(domain) :
             /\ smap' = sitemap_locals(priority_urls)
             /\ cpc' = "sitemap"
             /\ UNCHANGED cresults
    /\ UNCHANGED <<company, domain, extracted, idx, disc, fetch_log, batch_vars, other_vars>>

\* The future of one priority url completes and is collected.
SitemapCollect ==
    /\ cpc = "sitemap"
    /\ \E url \in smap.pending : \E outcome \in FetchOutcomes(domain) :
          /\ smap' = sitemap_step(smap, url, outcome, extracted[outcome])
          /\ fetch_log' = Append(fetch_log, [url |-> url, usable |-> outcome.content # "none",
                                             yielded |-> extracted[outcome] # {}, phase |-> "sitemap",
                                             page |-> yielding_page(outcome, extracted[outcome])])
    /\ UNCHANGED <<company, cpc, domain, extracted, idx, disc, sitemap_ran, cresults, batch_vars, other_vars>>

\* as_completed(futures, timeout=30) gives up on the futures still pending.
SitemapTimeout ==
    /\ cpc = "sitemap"
    /\ smap.pending # {}
    /\ cpc' = "raised"
    /\ UNCHANGED <<company, domain, extracted, idx, disc, smap, fetch_log, sitemap_ran, cresults, batch_vars, other_vars>>

\* Every future is collected: the fallback returns and the result is built.
SitemapFinish ==
    /\ cpc = "sitemap"
    /\ smap.pending = {}
    /\ disc' = merge_sitemap(disc, smap)
    /\ cpc' = "done"
    /\ cresults' = <<domain_result(company, domain, merge_sitemap(disc, smap), discovery_method(merge_sitemap(disc, smap), smap.all_emails))>>
    /\ UNCHANGED <<company, domain, extracted, idx, smap, fetch_log, sitemap_ran, batch_vars, other_vars>>

NextCompany ==
    \/ ResolveDomain
    \/ FetchCandidate
    \/ FinishWeb
    \/ SitemapLookup
    \/ SitemapCollect
    \/ SitemapTimeout
    \/ SitemapFinish

SpecCompany == InitCompany /\ [][NextCompany]_vars

(***************************************************************************)
(* process_files and process_files_with_callback: the thread pool, the     *)
(* loop over as_completed, the checkpoints and the runtime budget.         *)
(***************************************************************************)
company_idle ==
    /\ company = company_at(1) /\ cpc = "idle" /\ domain = None /\ extracted = <<>> /\ idx = 1
    /\ disc = discover_locals /\ smap = sitemap_locals({}) /\ fetch_log = <<>>
    /\ sitemap_ran = FALSE /\ cresults = <<>>

early_idle == company_idle /\ batch_idle /\ checkpoint_idle /\ fetch_idle /\ update_idle

Init ==
    /\ company_idle
    /\ other_idle
    /\ mode \in Modes
    /\ workers \in 1..MaxWorkers
    /\ input_file \in InputFiles
    /\ worker_table = [n \in {input_file[i].name : i \in 1..Len(input_file)} |->
                          worker_outcomes(CHOOSE c \in SeqToSet(input_file) : c.name = n)]
    /\ IF mode = "process_file"
       THEN /\ batch_size \in 1..MaxBatchSize
            /\ max_hours = FALSE /\ limit = 0 /\ resume = FALSE /\ output_dir = <<>>
       ELSE /\ batch_size = 1
            /\ limit \in 0..MaxLimit
            /\ max_hours \in BOOLEAN
            /\ output_dir \in PriorDirs
            /\ resume = (output_dir # <<>>)
    /\ run = 1 /\ pc = "init" /\ clock = 0 /\ stop = "no" /\ futures = <<>> /\ finished_q = <<>>
    /\ all_companies = <<>> /\ all_results = <<>> /\ restored_count = 0 /\ current_batch_results = <<>>
    /\ current_session_count = 0 /\ total_processed_count = 0 /\ total_emails_found = 0 /\ batch_number = 1
    /\ progress = <<>> /\ semaphore = 0 /\ batch_start = 1 /\ late_starts = 0 /\ first_run_normal = FALSE

new_future == [state |-> "pending", raised |-> FALSE, yielded |-> FALSE, result |-> no_result]
Running == {i \in 1..Len(futures) : futures[i].state = "running"}
Pending == {i \in 1..Len(futures) : futures[i].state = "pending"}
RECURSIVE count_found(_)
count_found(results) ==
    IF results = <<>> THEN 0 ELSE Len(Head(results).emails_found) + count_found(Tail(results))

\* A loader that cuts the input to its first limit records before it skips
\* the processed ones.
load_companies_cut_first(records, processed_names, max_count, loaded) ==
    SelectSeq(IF max_count # 0 /\ max_count < Len(records) THEN SubSeq(records, 1, max_count) ELSE records,
              LAMBDA c : company_name_of(c) # None /\ company_name_of(c) \notin processed_names)

\* The loader: a record with a name that is not processed yet is taken, and
\* the loop is left as soon as the list holds limit companies.
RECURSIVE load_companies(_, _, _, _)
load_companies(records, processed_names, max_count, loaded) ==
    IF records = <<>> THEN loaded
    ELSE IF company_name_of(Head(records)) # None /\ company_name_of(Head(records)) \notin processed_names
         THEN IF max_count # 0 /\ Len(loaded) + 1 >= max_count
              THEN Append(loaded, Head(records))
              ELSE load_companies(Tail(records), processed_names, max_count, Append(loaded, Head(records)))
         ELSE load_companies(Tail(records), processed_names, max_count, loaded)

\* Resume, the loading of the input and the submission of every company.
StartRun ==
    /\ pc = "init"
    /\ mode # "process_file"
    /\ LET found == find_latest_progress_file(IF resume THEN output_dir ELSE <<>>)
           todo == load_companies(input_file, found.processed_names, limit, <<>>)
       IN  /\ all_results' = [i \in 1..Len(found.previous_results) |-> restore_row(found.previous_results[i])]
           /\ restored_count' = Len(found.previous_results)
           /\ total_emails_found' = found.total_emails_found
           /\ batch_number' = found.next_batch_number
           /\ total_processed_count' = found.companies_count
           /\ all_companies' = todo
           /\ futures' = [i \in 1..Len(todo) |-> new_future]
           /\ pc' = IF Len(todo) = 0 THEN "ended" ELSE "loop"
    /\ UNCHANGED <<company_vars, other_vars, config_vars, resume, output_dir, run, clock, stop, finished_q,
                   current_batch_results, current_session_count, progress, semaphore, batch_start,
                   late_starts, first_run_normal>>

\* The count handed to the callback as the emails of the result at hand
\* alone.
emails_of_result(found_so_far, result) == Len(result.emails_found)
\* total_emails_found after a result: the emails of a successful result are
\* added to the count.
emails_found_after(found_so_far, result) ==
    IF result.success THEN found_so_far + Len(result.emails_found) ELSE found_so_far

\* A thread of the pool takes the oldest queued company.
WorkerStart ==
    /\ pc \in {"loop", "draining", "aborting"}
    /\ mode # "process_file"
    /\ Pending # {}
    /\ Cardinality(Running) < effective_workers(workers, Len(all_companies))
    /\ LET i == CHOOSE k \in Pending : \A j \in Pending : k <= j
       IN  futures' = [futures EXCEPT ![i].state = "running"]
    /\ late_starts' = IF stop # "no" THEN late_starts + 1 ELSE late_starts
    /\ UNCHANGED <<company_vars, other_vars, config_vars, resume, output_dir, run, pc, clock, stop, finished_q,
                   all_companies, loop_vars, semaphore, batch_start, first_run_normal>>

\* process_single_company_worker returns or raises in its thread.
WorkerFinish ==
    /\ mode # "process_file"
    /\ \E i \in Running : \E o \in worker_table[all_companies[i].name] :
          /\ futures' = [futures EXCEPT ![i].state = "finished", ![i].raised = o.raised, ![i].result = o.result]
          /\ finished_q' = IF pc = "loop" THEN Append(finished_q, i) ELSE finished_q
    /\ UNCHANGED <<company_vars, other_vars, config_vars, resume, output_dir, run, pc, clock, stop,
                   all_companies, loop_vars, semaphore, batch_start, late_starts, first_run_normal>>

\* time.time() moves past the budget: first past the budget counted from
\* start_time, then past the timeout counted from the call of as_completed.
BudgetRunsOut ==
    /\ pc = "loop"
    /\ max_hours
    /\ clock < 2
    /\ clock' = clock + 1
    /\ UNCHANGED <<company_vars, other_vars, config_vars, resume, output_dir, run, pc, stop, futures, finished_q,
                   all_companies, loop_vars, semaphore, batch_start, late_starts, first_run_normal>>

\* The futures after the loop has marked the one at the head of the queue.
yield_head == [futures EXCEPT ![Head(finished_q)].yielded = TRUE]
all_yielded(fs) == \A i \in 1..Len(fs) : fs[i].yielded
\* for remaining_future in future_to_company: remaining_future.cancel()
cancel_all(fs) == [i \in 1..Len(fs) |-> IF fs[i].state = "pending" THEN [fs[i] EXCEPT !.state = "cancelled"] ELSE fs[i]]

\* One pass of the loop over as_completed for a future that holds a result:
\* the counters, the progress callback, the checkpoint and the budget check.
CollectResult ==
    /\ pc = "loop"
    /\ finished_q # <<>>
    /\ ~futures[Head(finished_q)].raised
    /\ LET result == futures[Head(finished_q)].result
           batch == Append(current_batch_results, result)
           session == current_session_count + 1
           total == total_processed_count + 1
           emails == IF mode = "process_files_with_callback"
                     THEN emails_found_after(total_emails_found, result) ELSE total_emails_found
           checkpoint == IF mode = "process_files" THEN total % CheckpointEvery = 0
                         ELSE session % CheckpointEvery = 0
           over == max_hours /\ clock >= 1
       IN  /\ current_session_count' = session
           /\ total_processed_count' = total
           /\ progress' = IF mode = "process_files_with_callback"
                          THEN <<session, Len(all_companies), emails>> ELSE progress
           /\ IF checkpoint
              THEN /\ output_dir' = save_progress_csv(batch, output_dir, batch_number, total)
                   /\ total_emails_found' = IF mode = "process_files" THEN emails + count_found(batch) ELSE emails
                   /\ all_results' = all_results \o batch
                   /\ current_batch_results' = <<>>
                   /\ batch_number' = batch_number + 1
              ELSE /\ current_batch_results' = batch
                   /\ total_emails_found' = emails
                   /\ UNCHANGED <<output_dir, all_results, batch_number>>
           /\ finished_q' = Tail(finished_q)
           /\ futures' = IF over THEN cancel_all(yield_head) ELSE yield_head
           /\ stop' = IF over THEN "break" ELSE stop
           /\ pc' = IF over \/ all_yielded(yield_head) THEN "draining" ELSE "loop"
    /\ UNCHANGED <<company_vars, other_vars, config_vars, resume, run, clock, all_companies, restored_count,
                   semaphore, batch_start, late_starts, first_run_normal>>

\* future.result() raises: the exception leaves the try block of the loop
\* body and takes the with statement and process_files with it.
CollectRaisedAborts ==
    /\ pc = "loop"
    /\ finished_q # <<>>
    /\ futures[Head(finished_q)].raised
    /\ finished_q' = Tail(finished_q)
    /\ futures' = yield_head
    /\ pc' = "aborting"
    /\ UNCHANGED <<company_vars, other_vars, config_vars, resume, output_dir, run, clock, stop, all_companies,
                   loop_vars, semaphore, batch_start, late_starts, first_run_normal>>

\* future.result() raises: except Exception: continue.
CollectRaised ==
    /\ pc = "loop"
    /\ finished_q # <<>>
    /\ futures[Head(finished_q)].raised
    /\ finished_q' = Tail(finished_q)
    /\ futures' = yield_head
    /\ pc' = IF all_yielded(yield_head) THEN "draining" ELSE "loop"
    /\ UNCHANGED <<company_vars, other_vars, config_vars, resume, output_dir, run, clock, stop, all_companies,
                   loop_vars, semaphore, batch_start, late_starts, first_run_normal>>

\* as_completed finds its timeout passed while futures are outstanding and
\* raises TimeoutError at the for statement, outside the try of the body.
TimeoutAbort ==
    /\ pc = "loop"
    /\ clock = 2
    /\ ~all_yielded(futures)
    /\ pc' = "aborting"
    /\ stop' = "timeout"
    /\ UNCHANGED <<company_vars, other_vars, config_vars, resume, output_dir, run, clock, futures, finished_q,
                   all_companies, loop_vars, semaphore, batch_start, late_starts, first_run_normal>>

\* The with statement is left by an exception: shutdown(wait=True) lets the
\* queued companies run, then the exception leaves process_files.
Propagate ==
    /\ pc = "aborting"
    /\ Running = {} /\ Pending = {}
    /\ pc' = "raised"
    /\ UNCHANGED <<company_vars, other_vars, config_vars, resume, output_dir, run, clock, stop, futures, finished_q,
                   all_companies, loop_vars, semaphore, batch_start, late_starts, first_run_normal>>

\* The with statement is left after the loop: the threads are joined, the
\* remaining batch is saved and joins all_results, the last callback is made.
FinalSave ==
    /\ pc = "draining"
    /\ Running = {} /\ Pending = {}
    /\ IF current_batch_results # <<>>
       THEN /\ output_dir' = save_progress_csv(current_batch_results, output_dir, batch_number, total_processed_count)
            /\ total_emails_found' = IF mode = "process_files"
                                     THEN total_emails_found + count_found(current_batch_results)
                                     ELSE total_emails_found
            /\ all_results' = all_results \o current_batch_results
       ELSE UNCHANGED <<output_dir, total_emails_found, all_results>>
    /\ progress' = IF mode = "process_files_with_callback"
                   THEN <<Len(all_companies), Len(all_companies), total_emails_found>> ELSE progress
    /\ pc' = "ended"
    /\ UNCHANGED <<company_vars, other_vars, config_vars, resume, run, clock, stop, futures, finished_q, all_companies,
                   restored_count, current_batch_results, current_session_count, total_processed_count,
                   batch_number, semaphore, batch_start, late_starts, first_run_normal>>

\* The same input is run again over the same output directory, with resume.
Rerun ==
    /\ pc \in {"ended", "raised"}
    /\ mode # "process_file"
    /\ run < MaxRuns
    /\ run' = run + 1
    /\ resume' = TRUE
    /\ first_run_normal' = (pc = "ended" /\ stop = "no")
    /\ pc' = "init" /\ clock' = 0 /\ stop' = "no" /\ futures' = <<>> /\ finished_q' = <<>>
    /\ all_companies' = <<>> /\ all_results' = <<>> /\ restored_count' = 0 /\ current_batch_results' = <<>>
    /\ current_session_count' = 0 /\ total_processed_count' = 0 /\ total_emails_found' = 0 /\ batch_number' = 1
    /\ progress' = <<>> /\ late_starts' = 0
    /\ UNCHANGED <<company_vars, other_vars, config_vars, output_dir, semaphore, batch_start>>

(***************************************************************************)
(* AsyncEmailWorker.process_file: batches of tasks behind a semaphore.     *)
(***************************************************************************)
\* The result process_company builds when the worker function raises.
error_result(company_data) ==
    [name |-> IF company_name_of(company_data) # None THEN company_name_of(company_data) ELSE <<"U", "n", "k", "n", "o", "w", "n">>,
     domain |-> None, website |-> website_of(company_data),
     emails_found |-> <<>>, discovery_method |-> "error", success |-> FALSE, pages_accessed |-> <<>>]

\* The tasks of the batch that starts at company first; the companies of
\* later batches have no task yet.
batch_tasks(fs, first, size) ==
    [i \in 1..Len(fs) |-> IF i >= first /\ i < first + size THEN new_future
                          ELSE fs[i]]
BatchOf(first, size) == {i \in 1..Len(futures) : i >= first /\ i < first + size}

\* The file is loaded and the tasks of its first batch are created.
StartFile ==
    /\ pc = "init"
    /\ mode = "process_file"
    /\ all_companies' = input_file
    /\ futures' = batch_tasks([i \in 1..Len(input_file) |-> [new_future EXCEPT !.state = "unsubmitted"]], 1, batch_size)
    /\ semaphore' = workers
    /\ batch_start' = 1
    /\ pc' = "batch"
    /\ UNCHANGED <<company_vars, other_vars, config_vars, resume, output_dir, run, clock, stop, finished_q,
                   loop_vars, late_starts, first_run_normal>>

\* The event loop runs the oldest task that waits: it takes the semaphore
\* and calls the blocking worker function, so no other task runs meanwhile.
TaskEnter ==
    /\ pc = "batch"
    /\ Pending # {}
    /\ Running = {}
    /\ semaphore > 0
    /\ LET i == CHOOSE k \in Pending : \A j \in Pending : k <= j
       IN  futures' = [futures EXCEPT ![i].state = "running"]
    /\ semaphore' = semaphore - 1
    /\ UNCHANGED <<company_vars, other_vars, config_vars, resume, output_dir, run, pc, clock, stop, finished_q,
                   all_companies, loop_vars, batch_start, late_starts, first_run_normal>>

\* process_company returns the worker's result, or the error result when
\* the worker raised, and the semaphore is released.
TaskLeave ==
    /\ pc = "batch"
    /\ \E i \in Running : \E o \in worker_table[all_companies[i].name] :
          futures' = [futures EXCEPT ![i].state = "finished", ![i].raised = o.raised,
                                     ![i].result = IF o.raised THEN error_result(all_companies[i]) ELSE o.result]
    /\ semaphore' = semaphore + 1
    /\ UNCHANGED <<company_vars, other_vars, config_vars, resume, output_dir, run, pc, clock, stop, finished_q,
                   all_companies, loop_vars, batch_start, late_starts, first_run_normal>>

\* gather returns: the results of the batch are counted and kept, and the
\* tasks of the next batch are created behind a new semaphore.
GatherBatch ==
    /\ pc = "batch"
    /\ \A i \in BatchOf(batch_start, batch_size) : futures[i].state = "finished"
    /\ LET results == [k \in 1..Cardinality(BatchOf(batch_start, batch_size)) |-> futures[batch_start + k - 1].result]
       IN  /\ all_results' = all_results \o results
           /\ total_emails_found' = total_emails_found + count_found(results)
           /\ total_processed_count' = total_processed_count + Len(results)
    /\ futures' = [i \in 1..Len(futures) |->
                      IF i \in BatchOf(batch_start, batch_size) THEN [futures[i] EXCEPT !.yielded = TRUE]
                      ELSE batch_tasks(futures, batch_start + batch_size, batch_size)[i]]
    /\ batch_start' = batch_start + batch_size
    /\ semaphore' = workers
    /\ pc' = IF batch_start + batch_size > Len(all_companies) THEN "ended" ELSE "batch"
    /\ UNCHANGED <<company_vars, other_vars, config_vars, resume, output_dir, run, clock, stop, finished_q, all_companies,
                   restored_count, current_batch_results, current_session_count, batch_number, progress,
                   late_starts, first_run_normal>>

Next ==
    \/ StartRun
    \/ WorkerStart
    \/ WorkerFinish
    \/ BudgetRunsOut
    \/ CollectResult
    \/ CollectRaised
    \/ TimeoutAbort
    \/ Propagate
    \/ FinalSave
    \/ Rerun
    \/ StartFile
    \/ TaskEnter
    \/ TaskLeave
    \/ GatherBatch

Spec == Init /\ [][Next]_vars

(***************************************************************************)
(* Properties of one company's processing, checked under SpecCompany.      *)
(***************************************************************************)
\* The host of an address is the resolved domain d or one of its subdomains.
affine_to(email, d) == HostPart(email) = d \/ EndsWith(HostPart(email), <<".">> \o d)

\* C1: every email of a result for a company with a resolved domain D has
\* a host equal to D or a subdomain of D; an address of an unrelated host
\* found on a page never reaches emails_found.
C1_EmailsAffineToDomain ==
    \A i \in 1..Len(cresults) :
        cresults[i].domain # None =>
            \A e \in SeqToSet(cresults[i].emails_found) : affine_to(e, cresults[i].domain)

\* C4: once a candidate of the sequential pass has yielded an email, it is
\* the last fetch of the company and the sitemap fallback does not run: the
\* number of fetch_website_content calls is the position of that candidate.
C4_EarlyExit ==
    \A i \in 1..Len(fetch_log) :
        (fetch_log[i].phase = "sequential" /\ fetch_log[i].yielded) =>
            /\ Len(fetch_log) = i
            /\ fetch_log[i].url = url_of(test_urls(domain)[i])
            /\ ~sitemap_ran
C4_Witness ==
    /\ cpc = "done"
    /\ Len(fetch_log) = 3
    /\ fetch_log[3].yielded
    /\ ~fetch_log[1].usable
    /\ cresults[1].discovery_method = "web_main"

\* C5: a company whose website is missing, empty, None or rejected by
\* clean_url gets the result no_domain, with domain None and no emails or
\* pages, and no fetch or sitemap lookup is made for it.
no_website(company_data) ==
    \/ website_of(company_data) = None
    \/ clean_url(website_of(company_data)) = None
C6_PagesAccessedUsable ==
    \A i \in 1..Len(cresults) :
        \A p \in 1..Len(cresults[i].pages_accessed) :
            \E k \in 1..Len(fetch_log) :
                fetch_log[k].url = cresults[i].pages_accessed[p] /\ fetch_log[k].usable


\* A candidate of the sequential pass gave at least one validated email.
sequential_yielded == \E i \in 1..Len(fetch_log) : fetch_log[i].phase = "sequential" /\ fetch_log[i].yielded
\* C23: the sitemap fallback runs for a company if and only if its
\* sequential pass gave no validated email, and every result with the
\* method not_found was built after the fallback had been attempted.
C23_SitemapIffNothingFound ==
    /\ sitemap_ran => ~sequential_yielded
    /\ (cpc \in {"sitemap", "raised", "done"} /\ domain # None) => (sitemap_ran <=> ~sequential_yielded)
    /\ \A i \in 1..Len(cresults) : cresults[i].discovery_method = "not_found" => sitemap_ran
C23_Witness ==
    /\ cpc = "done"
    /\ cresults[1].discovery_method = "not_found"
    /\ sitemap_ran
    /\ Len(fetch_log) = 8
    /\ fetch_log[6].phase = "sequential" /\ fetch_log[6].usable
    /\ fetch_log[8].phase = "sitemap"

\* The categories of the candidates of the sequential pass that yielded.
yielding_categories ==
    {test_urls(domain)[i].category : i \in {k \in 1..Len(fetch_log) : fetch_log[k].phase = "sequential" /\ fetch_log[k].yielded}}
\* C24: for a result of a company with a resolved domain the method is
\* not_found iff emails_found is empty, sitemap iff the emails came from the
\* sitemap fallback, web_main when the yielding candidate had the category
\* main and web_contact when it had a contact category; there is no other.
C24_MethodNamesSource ==
    \A i \in 1..Len(cresults) :
        cresults[i].domain # None =>
            LET method == cresults[i].discovery_method IN
            /\ method \in {"not_found", "sitemap", "web_main", "web_contact"}
            /\ method = "not_found" <=> cresults[i].emails_found = <<>>
            /\ method = "sitemap" <=> (sitemap_ran /\ smap.all_emails # {})
            /\ method = "sitemap" => SeqToSet(cresults[i].emails_found) = smap.all_emails
            /\ method = "web_main" <=> yielding_categories = {"main"}
            /\ method = "web_contact" <=> (yielding_categories # {} /\ yielding_categories \subseteq {"contact_high", "contact_medium"})
C24_Witness ==
    /\ cpc = "done"
    /\ cresults[1].discovery_method = "sitemap"
    /\ cresults[1].emails_found # <<>>
    /\ Len(fetch_log) = 8
    /\ ~fetch_log[7].yielded
    /\ fetch_log[8].yielded

\* The main page of the bare domain, over either protocol.
bare_main_page(page_url) == page_url \in {<<"h", "t", "t", "p", "s", ":", "/", "/">> \o domain, <<"h", "t", "t", "p", ":", "/", "/">> \o domain}
\* C29: the sequential pass tries the main pages first and the contact
\* pages after them: no contact-page URL is fetched before the main page of
\* the bare domain has been tried, and no main page after a contact page.
C29_MainPagesFirst ==
    \A i \in 1..Len(fetch_log) :
        (fetch_log[i].phase = "sequential" /\ test_urls(domain)[i].category # "main") =>
            /\ \E j \in 1..(i - 1) : bare_main_page(fetch_log[j].url)
            /\ \A j \in (i + 1)..Len(fetch_log) :
                  fetch_log[j].phase = "sequential" => test_urls(domain)[j].category # "main"

(***************************************************************************)
(* Properties of a batch run, checked under Spec.                          *)
(***************************************************************************)
\* The results this run has collected (the restored ones come first in
\* all_results; the last batch joins all_results when the run ends).
fresh_results == SubSeq(all_results, restored_count + 1, Len(all_results))
session_results == IF pc = "ended" THEN fresh_results ELSE fresh_results \o current_batch_results
results_named(results, name) == SelectSeq(results, LAMBDA r : r.name = name)
in_checkpoint(result) ==
    \E f \in 1..Len(output_dir) : \E k \in 1..Len(output_dir[f].rows) :
        output_dir[f].rows[k].name = csv_field(result.name)
success_iff_emails(r) == r.success <=> (r.emails_found # <<>>)

\* C2: in every result record there is (returned by a worker, collected,
\* restored from a checkpoint, built by process_company for an error),
\* success is true exactly when emails_found is not empty.
C2_SuccessIffEmails ==
    /\ \A i \in 1..Len(all_results) : success_iff_emails(all_results[i])
    /\ \A i \in 1..Len(current_batch_results) : success_iff_emails(current_batch_results[i])
    /\ \A i \in 1..Len(futures) :
          (futures[i].state = "finished" /\ (mode = "process_file" \/ ~futures[i].raised)) =>
              success_iff_emails(futures[i].result)
C2_Witness ==
    /\ run = 2
    /\ restored_count = 2
    /\ all_results[1].success /\ Len(all_results[1].emails_found) = 2
    /\ ~all_results[2].success /\ all_results[2].emails_found = <<>>

\* C3: after process_files has completed normally, every result of the run
\* is in some checkpoint file, and a second run with resume over the same
\* input and output directory dispatches no company.
C3_ResumeDispatchesNothing ==
    /\ (mode = "process_files" /\ run = 1 /\ pc = "ended" /\ stop = "no") =>
          \A k \in 1..Len(session_results) : in_checkpoint(session_results[k])
    /\ (mode = "process_files" /\ run = 2 /\ first_run_normal /\ pc # "init") =>
          all_companies = <<>>

C8_SoftDeadline ==
    (stop # "no") =>
        /\ late_starts = 0
        /\ pc \notin {"aborting", "raised"}
        /\ pc = "ended" =>
              \A k \in 1..Len(session_results) :
                  /\ in_checkpoint(session_results[k])
                  /\ \E j \in 1..Len(all_results) : all_results[j] = session_results[k]

\* C9: at the end of a run every dispatched company has exactly one result
\* in the result set, and the result of a company whose worker raised has
\* discovery_method error and success false.
C9_OneResultPerCompany ==
    (pc = "ended" /\ stop = "no") =>
        \A i \in 1..Len(all_companies) :
            LET rs == results_named(session_results, company_name_of(all_companies[i]))
            IN  /\ Len(rs) = 1
                /\ futures[i].raised => (rs[1].discovery_method = "error" /\ ~rs[1].success)

\* C10: an exception raised while one company is processed does not end
\* the run: the run is left by an exception only for the timeout of
\* as_completed, and at its end every other dispatched company has run and
\* has its result collected.
C10_ExceptionDoesNotAbort ==
    /\ pc \in {"aborting", "raised"} => stop = "timeout"
    /\ (pc = "ended" /\ stop = "no") =>
          \A i \in 1..Len(futures) :
              /\ futures[i].state = "finished"
              /\ ~futures[i].raised => Len(SelectSeq(session_results, LAMBDA r : r = futures[i].result)) = 1
C10_Witness ==
    /\ pc = "ended"
    /\ stop = "no"
    /\ Len(futures) = 2
    /\ futures[1].raised
    /\ ~futures[2].raised
    /\ Len(session_results) = 1

(***************************************************************************)
(* The checkpoint store on its own: batches are saved with                 *)
(* save_progress_csv and the directory is read back with                   *)
(* find_latest_progress_file.                                              *)
(***************************************************************************)
MaxBatchRows == 2
MaxSaves == 2
\* Company names as an NDJSON input can hold them.
BatchNames == {<<"A">>, <<"A", "\r", "B">>, <<"A", "\n", "B">>}
BatchEmails == {<<>>, <<<<"c", "o", "n", "t", "a", "c", "t", "@", "a", "c", "m", "e", ".", "f", "r">>, <<"i", "n", "f", "o", "@", "a", "c", "m", "e", ".", "f", "r">>>>}
batch_result(name, emails) ==
    [name |-> name, domain |-> <<"a", "c", "m", "e", ".", "f", "r">>, website |-> <<"a", "c", "m", "e", ".", "f", "r">>, emails_found |-> emails,
     discovery_method |-> IF emails # <<>> THEN <<"w", "e", "b", "_", "1", "_", "p", "a", "g", "e", "s">> ELSE <<"n", "o", "_", "e", "m", "a", "i", "l", "s", "_", "f", "o", "u", "n", "d">>,
     success |-> emails # <<>>, pages_accessed |-> <<<<"h", "t", "t", "p", "s", ":", "/", "/", "a", "c", "m", "e", ".", "f", "r">>>>]
uniquely_named(results) ==
    \A i, j \in 1..Len(results) : results[i].name = results[j].name => i = j
ResultBatches ==
    {b \in UNION {[1..n -> {batch_result(name, emails) : name \in BatchNames, emails \in BatchEmails} \
                                 {batch_result(name, <<>>) : name \in BatchNames \ {<<"A">>}}] :
                     n \in 1..MaxBatchRows} : uniquely_named(b)}

InitCheckpoint ==
    /\ progress_dir = <<>> /\ saved = <<>> /\ resume_info = <<>> /\ ck_pc = "saving"
    /\ company_idle /\ batch_idle /\ fetch_idle /\ update_idle /\ later_idle

\* save_progress_csv with a batch, under a cumulative count that is or is
\* not a multiple of 500; saved keeps the batches that reached the disk.
SaveProgress ==
    /\ ck_pc = "saving"
    /\ Len(progress_dir) < MaxSaves
    /\ \E results \in ResultBatches, total_processed \in {CheckpointEvery - 1, CheckpointEvery} :
          /\ progress_dir' = save_progress_csv(results, progress_dir, Len(progress_dir) + 1, total_processed)
          /\ saved' = IF progress_dir' # progress_dir THEN Append(saved, results) ELSE saved
    /\ UNCHANGED <<company_vars, batch_vars, fetch_vars, update_vars, later_vars, resume_info, ck_pc>>

FindLatest ==
    /\ ck_pc = "saving"
    /\ resume_info' = <<find_latest_progress_file(progress_dir)>>
    /\ ck_pc' = "found"
    /\ UNCHANGED <<company_vars, batch_vars, fetch_vars, update_vars, later_vars, progress_dir, saved>>

\* '; '.join(pages) where pages is a str: the separator goes between its
\* characters.
join_chars(str, sep) == Join([i \in 1..Len(str) |-> <<str[i]>>], sep)
\* The row generate_final_report writes for a result restored from a
\* checkpoint: emails_found is the list again, pages_accessed is still
\* the text of the checkpoint.
final_report_row(result) ==
    [name |-> result.name,
     emails_found |-> IF result.emails_found # <<>> THEN Join(result.emails_found, <<",", " ">>) ELSE <<>>,
     email_count |-> Len(result.emails_found),
     pages_accessed |-> IF result.pages_accessed # <<>> THEN join_chars(result.pages_accessed, <<";", " ">>) ELSE <<>>]

\* The run that resumes: the previous results are converted (process_files)
\* and, with nothing left to process, written by generate_final_report.
GenerateFinalReport ==
    /\ ck_pc = "found"
    /\ final_report' = [i \in 1..Len(resume_info[1].previous_results) |->
                           final_report_row(restore_row(resume_info[1].previous_results[i]))]
    /\ ck_pc' = "reported"
    /\ UNCHANGED <<company_vars, batch_vars, fetch_vars, update_vars, report_others, progress_dir, saved,
                   resume_info>>

NextCheckpoint ==
    \/ SaveProgress
    \/ FindLatest
    \/ GenerateFinalReport

SpecCheckpoint == InitCheckpoint /\ [][NextCheckpoint]_vars

RECURSIVE written_rows(_)
written_rows(files) ==
    IF files = <<>> THEN <<>> ELSE Head(files).rows \o written_rows(Tail(files))

\* C11: find_latest_progress_file answers with the set of all non-empty
\* names of all checkpoint files and with the sum of the emails of their
\* rows; after one written batch of N uniquely named results that is
\* exactly N names, the names of the batch, and the email total of the batch.
C11_CheckpointRoundTrip ==
    ck_pc = "found" =>
        /\ resume_info[1].processed_names =
              {read_row(written_rows(progress_dir)[i]).name : i \in 1..Len(written_rows(progress_dir))} \ {<<>>}
        /\ resume_info[1].total_emails_found = count_emails(written_rows(progress_dir))
        /\ Len(saved) = 1 =>
              /\ Cardinality(resume_info[1].processed_names) = Len(saved[1])
              /\ resume_info[1].total_emails_found = count_found(saved[1])

RECURSIVE saved_results(_)
saved_results(batches) == IF batches = <<>> THEN <<>> ELSE Head(batches) \o saved_results(Tail(batches))

\* C37: a result restored from a checkpoint is written to the final report
\* with the pages_accessed and emails_found it had when it was produced.
C37_ReportRoundTrip ==
    ck_pc = "reported" =>
        /\ Len(final_report) = Len(saved_results(saved))
        /\ \A i \in 1..Len(final_report) :
              /\ final_report[i].emails_found = Join(saved_results(saved)[i].emails_found, <<",", " ">>)
              /\ final_report[i].pages_accessed = Join(saved_results(saved)[i].pages_accessed, <<";", " ">>)

unprocessed(records, processed_names) ==
    SelectSeq(records, LAMBDA c : company_name_of(c) # None /\ company_name_of(c) \notin processed_names)
first_records(records, n) == IF n < Len(records) THEN SubSeq(records, 1, n) ELSE records

\* C12: when a run starts with resume and a limit L, the companies it
\* dispatches are exactly the first L records, in input order, whose names
\* are not in the processed-name set of the checkpoints; a processed record
\* does not count toward L.
C12_LimitAfterResume ==
    [][(pc = "init" /\ pc' # "init" /\ mode # "process_file" /\ resume /\ limit > 0) =>
          /\ all_companies' = first_records(unprocessed(input_file,
                                  find_latest_progress_file(output_dir).processed_names), limit)
          /\ Len(futures') = Len(all_companies')]_vars
C12_Witness ==
    /\ run = 2 /\ resume /\ limit = 1 /\ pc = "loop"
    /\ Len(input_file) = 2
    /\ company_name_of(input_file[1]) \in find_latest_progress_file(output_dir).processed_names
    /\ all_companies = <<input_file[2]>>

(***************************************************************************)
(* fetch_website_content: one call, one step per attempt of its loop.      *)
(* session.get follows redirects itself (allow_redirects=True), so the     *)
(* response the code sees is the one at the end of the redirect chain.     *)
(***************************************************************************)
MaxRetries == 2
\* Redirects the session follows before it raises TooManyRedirects.
MaxRedirects == 3
USER_AGENTS == {"Chrome/120 Windows", "Firefox/120 Windows"}
\* The User-Agent of a session made by _create_session, which sets none.
default_user_agent == "python-requests"
Hosts == {"a.fr", "b.fr"}
Schemes == {"https", "http"}
\* The server's Location header per host; "none" is a host that answers
\* without one.
RedirectTables ==
    {[h \in Hosts |-> "none"],
     [h \in Hosts |-> IF h = "a.fr" THEN "b.fr" ELSE "none"],
     [h \in Hosts |-> IF h = "a.fr" THEN "b.fr" ELSE "a.fr"],
     [h \in Hosts |-> IF h = "a.fr" THEN "a.fr" ELSE "none"]}

header(text, numeric, value) == [present |-> TRUE, text |-> text, numeric |-> numeric, value |-> value]
\* Answers without a Location header, as session.get returns them.
Responses ==
    {response_of(200, no_header, 1000, "text/html", TRUE),
     response_of(200, header("1000", TRUE, 1000), 1000, "text/html; charset=utf-8", TRUE),
     response_of(200, header("10485761", TRUE, 10485761), 10485761, "text/html", TRUE),
     response_of(200, header("12 bytes", FALSE, 0), 1000, "text/html", TRUE),
     response_of(200, no_header, 6000000, "text/html", TRUE),
     response_of(200, no_header, 1000, "image/png", FALSE),
     response_of(403, no_header, 1000, "text/html", TRUE),
     response_of(429, no_header, 1000, "text/html", TRUE),
     response_of(500, no_header, 1000, "text/html", TRUE),
     response_of(200, no_header, 1000, "", TRUE),
     response_of(302, no_header, 0, "", FALSE)}
Exceptions == {"Timeout", "ConnectionError"}
\* What the plain session.get of the HTTP fallback ends in.
FallbackOutcomes == {"200", "other_status", "exception"}

content_of(length, body) == [none |-> FALSE, length |-> length, complete |-> length = body]
max_content_length == 10 * 1024 * 1024
max_size == 5 * 1024 * 1024
chunk_size == 8192
\* The loop over iter_content: chunks are added until the size is above
\* max_size, so the content ends at the first chunk border above it.
streamed(body) ==
    IF body > max_size /\ ((max_size \div chunk_size) + 1) * chunk_size < body
    THEN ((max_size \div chunk_size) + 1) * chunk_size
    ELSE body
text_type(content_type) ==
    \/ content_type \in {"text/html", "text/html; charset=utf-8", "text/plain", "application/xhtml+xml"}

\* Only the exceptions of requests are caught.
handled_requests_only(exception) ==
    exception \in {"SSLError", "Timeout", "ConnectionError", "TooManyRedirects"}
\* The except clauses of the attempt: every exception is caught and the
\* loop goes on.
handled(exception) ==
    exception \in {"SSLError", "Timeout", "ConnectionError", "TooManyRedirects", "ValueError"}
error_tag(exception) ==
    CASE exception = "SSLError" -> "ssl_error"
      [] exception = "Timeout" -> "timeout"
      [] exception = "ConnectionError" -> "connection_error"
      [] exception = "TooManyRedirects" -> "request_error_TooManyRedirects"
      [] OTHER -> "unexpected_error_" \o exception

\* The hosts session.get asks, one after the other, from host on.
RECURSIVE redirect_chain(_, _, _)
redirect_chain(host, table, followed) ==
    IF table[host] = "none" \/ followed >= MaxRedirects
    THEN <<host>>
    ELSE <<host>> \o redirect_chain(table[host], table, followed + 1)

InitFetch ==
    /\ f_pc = "call"
    /\ f_url \in [scheme : Schemes, host : {"a.fr"}]
    /\ max_retries \in 0..MaxRetries
    /\ redirects \in RedirectTables
    /\ user_agent = "" /\ attempt = 0 /\ f_errors = <<>>
    /\ request_log = <<>> /\ f_content = no_content /\ f_response = no_response
    /\ company_idle /\ batch_idle /\ checkpoint_idle /\ update_idle /\ later_idle

fetch_rest == <<company_vars, batch_vars, checkpoint_vars, update_vars, later_vars>>

\* session_manager.get_session: a pooled session gets a User-Agent drawn
\* from USER_AGENTS, a session made for want of a pooled one has none set.
GetSession ==
    /\ f_pc = "call"
    /\ user_agent' \in USER_AGENTS \cup {default_user_agent}
    /\ f_pc' = "loop"
    /\ UNCHANGED <<fetch_rest, f_url, max_retries, redirects, attempt, f_errors, request_log, f_content, f_response>>

request(to, via, answer) ==
    [url |-> to, user_agent |-> user_agent, via |-> via, attempt |-> attempt, answer |-> answer]
\* The requests of one session.get(url, allow_redirects=True) whose last
\* request is answered by answer.
chain_requests(answer) ==
    LET hosts == redirect_chain(f_url.host, redirects, 0)
    IN  [i \in 1..Len(hosts) |->
            request([scheme |-> f_url.scheme, host |-> hosts[i]],
                    IF i = 1 THEN "attempt" ELSE "redirect",
                    IF i = Len(hosts) THEN answer ELSE "redirect")]
too_many_redirects ==
    LET hosts == redirect_chain(f_url.host, redirects, 0) IN redirects[hosts[Len(hosts)]] # "none"

\* An exception inside the try of an attempt.
raise_in_attempt(exception) ==
    IF handled(exception)
    THEN /\ f_errors' = Append(f_errors, error_tag(exception))
         /\ attempt' = attempt + 1
         /\ f_pc' = "loop"
    ELSE /\ f_pc' = "raised"
         /\ UNCHANGED <<f_errors, attempt>>
\* The next attempt is started without counting the one that failed.
next_attempt_uncounted(tags) ==
    /\ f_errors' = tags
    /\ attempt' = attempt
    /\ f_pc' = "loop"
    /\ f_content' = f_content

next_attempt(tags) ==
    /\ f_errors' = tags
    /\ attempt' = attempt + 1
    /\ f_pc' = "loop"
    /\ f_content' = f_content
return_pair(body, tags) ==
    /\ f_content' = body
    /\ f_errors' = tags
    /\ f_pc' = "returned"
    /\ attempt' = attempt

\* An attempt whose session.get returns a response (lines 748-803).  The
\* response carries no usable Location header, the session has followed
\* every other one, so the manual redirect of lines 787-793 does not run.
AttemptResponse ==
    /\ f_pc = "loop"
    /\ attempt <= max_retries
    /\ ~too_many_redirects
    /\ \E r \in Responses :
          /\ f_response' = r
          /\ request_log' = request_log \o chain_requests(ToString(r.status))
          /\ IF r.content_length.present /\ ~r.content_length.numeric
             THEN raise_in_attempt("ValueError") /\ f_content' = f_content
             ELSE IF r.content_length.present /\ r.content_length.value > max_content_length
             THEN return_pair(no_content, Append(f_errors, "content_too_large_" \o r.content_length.text))
             ELSE LET tags == IF r.body > max_size THEN Append(f_errors, "content_size_exceeded") ELSE f_errors
                  IN  IF r.status = 200
                      THEN IF text_type(r.content_type) \/ (r.content_type = "" /\ r.markup)
                           THEN return_pair(content_of(streamed(r.body), r.body), tags)
                           ELSE next_attempt(tags)
                      ELSE IF r.status \in {301, 302, 303, 307, 308}
                      THEN next_attempt(tags)
                      ELSE next_attempt(Append(tags, "http_" \o ToString(r.status)))
    /\ UNCHANGED <<fetch_rest, f_url, max_retries, redirects, user_agent>>

\* The session gives up a redirect chain that does not end.
AttemptTooManyRedirects ==
    /\ f_pc = "loop"
    /\ attempt <= max_retries
    /\ too_many_redirects
    /\ request_log' = request_log \o chain_requests("redirect")
    /\ raise_in_attempt("TooManyRedirects")
    /\ UNCHANGED <<fetch_rest, f_url, max_retries, redirects, user_agent, f_content, f_response>>

\* The request times out or the connection fails.
AttemptException ==
    /\ f_pc = "loop"
    /\ attempt <= max_retries
    /\ \E exception \in Exceptions :
          /\ request_log' = Append(request_log, request(f_url, "attempt", exception))
          /\ raise_in_attempt(exception)
    /\ UNCHANGED <<fetch_rest, f_url, max_retries, redirects, user_agent, f_content, f_response>>

\* url.replace('https://', 'http://')
http_url == [f_url EXCEPT !.scheme = "http"]
\* The TLS handshake fails; for an https URL the handler asks the http form
\* of the URL and hands back its text on status 200.
AttemptSSLError ==
    /\ f_pc = "loop"
    /\ attempt <= max_retries
    /\ IF ~handled("SSLError")
       THEN /\ request_log' = Append(request_log, request(f_url, "attempt", "SSLError"))
            /\ raise_in_attempt("SSLError") /\ f_content' = f_content
       ELSE IF f_url.scheme = "https"
       THEN \E outcome \in FallbackOutcomes :
               /\ request_log' = request_log \o <<request(f_url, "attempt", "SSLError"),
                                                   request(http_url, "fallback", outcome)>>
               /\ IF outcome = "200"
                  THEN return_pair(content_of(1000, 1000), Append(f_errors, "ssl_error"))
                  ELSE next_attempt(Append(f_errors, "ssl_error"))
       ELSE /\ request_log' = Append(request_log, request(f_url, "attempt", "SSLError"))
            /\ next_attempt(Append(f_errors, "ssl_error"))
    /\ UNCHANGED <<fetch_rest, f_url, max_retries, redirects, user_agent, f_response>>

\* The loop is over: return None, errors.
ReturnNone ==
    /\ f_pc = "loop"
    /\ attempt > max_retries
    /\ f_pc' = "returned"
    /\ f_content' = no_content
    /\ UNCHANGED <<fetch_rest, f_url, max_retries, redirects, user_agent, attempt, f_errors, request_log, f_response>>

NextFetch ==
    \/ GetSession
    \/ AttemptResponse
    \/ AttemptTooManyRedirects
    \/ AttemptException
    \/ AttemptSSLError
    \/ ReturnNone

SpecFetch == InitFetch /\ [][NextFetch]_vars

tags_recorded == {f_errors[i] : i \in 1..Len(f_errors)}
attempts_sent == SelectSeq(request_log, LAMBDA q : q.via = "attempt")

\* C13: fetch_website_content never raises, whatever the network does
\* (timeout, connection error, TLS error, any status, a Content-Length that
\* is no number): the call stays inside its attempt loop and ends by
\* handing back the pair (content, errors).
C13_FetchNeverRaises ==
    /\ f_pc \in {"idle", "call", "loop", "returned"}
    /\ f_pc = "loop" => attempt <= max_retries + 1
    /\ f_pc = "returned" => Len(f_errors) <= max_retries + 2
C13_Witness ==
    /\ f_pc = "returned"
    /\ f_content.none
    /\ {"unexpected_error_ValueError", "timeout", "ssl_error"} \subseteq tags_recorded

\* C17: in one call on an https URL at most one fallback request to the
\* http form of the URL is sent, however many attempts fail with a TLS error.
C17_OneHttpFallback ==
    Len(SelectSeq(request_log, LAMBDA q : q.via = "fallback")) <= 1

\* C18: a redirect is never followed to a URL that the call has already
\* requested, and for any chain or cycle of redirects the call ends after a
\* bounded number of requests.  (The manual hop of lines 787-793 is never
\* taken, so there is at most one of it.)
C18_RedirectsNeverRevisit ==
    /\ \A j \in 1..Len(request_log) :
          request_log[j].via = "redirect" =>
              \A i \in 1..(j - 1) : request_log[i].url # request_log[j].url
    /\ Len(request_log) <= (max_retries + 1) * (MaxRedirects + 2)

\* C19: in a call that may retry, after an answer 403 or 429 exactly one
\* further attempt is made for the URL, and it is sent with another
\* User-Agent than the refused one.
C19_RetryWithOtherAgent ==
    (f_pc = "returned" /\ max_retries >= 1) =>
        \A k \in 1..Len(attempts_sent) :
            (/\ attempts_sent[k].answer \in {"403", "429"}
             /\ \A i \in 1..(k - 1) : attempts_sent[i].answer \notin {"403", "429"}) =>
                /\ Len(attempts_sent) = k + 1
                /\ attempts_sent[k + 1].user_agent # attempts_sent[k].user_agent

oversized(r) ==
    \/ r.content_length.present /\ r.content_length.numeric /\ r.content_length.value > max_content_length
    \/ r.body > max_size
\* C20: a response whose Content-Length or whose streamed body is above the
\* ceiling is rejected: a content_too_large tag is recorded and no content
\* is handed back; a body cut at the ceiling is never returned as a fetch
\* that succeeded.
C20_OversizedRejected ==
    /\ oversized(f_response) =>
          \E tag \in tags_recorded : tag \in {"content_too_large", "content_too_large_" \o f_response.content_length.text}
    /\ (f_pc = "returned" /\ oversized(f_response) /\ request_log[Len(request_log)].via # "fallback") =>
          f_content.none
    /\ (f_pc = "returned" /\ ~f_content.none) => f_content.complete

\* C21: whenever the call hands back no content its errors list is not
\* empty, and when the last answer was a 200 whose Content-Type is not an
\* accepted one (and whose body was not taken for markup) the list holds
\* the tag invalid_content_type.
rejected_type(r) == r.status = 200 /\ ~text_type(r.content_type) /\ ~(r.content_type = "" /\ r.markup)
C21_NoContentNamesCause ==
    (f_pc = "returned" /\ f_content.none) =>
        /\ f_errors # <<>>
        /\ (request_log[Len(request_log)].answer = "200" /\ rejected_type(f_response)) =>
               "invalid_content_type" \in tags_recorded

\* C22: one call issues at most max_retries + 1 primary requests, all of
\* them to url, whatever timeouts, connection errors and statuses it meets:
\* every pass of the attempt loop sends one and is counted, and the call is
\* never stuck short of its return.
C22_AttemptCeiling ==
    /\ Len(attempts_sent) <= max_retries + 1
    /\ \A k \in 1..Len(attempts_sent) : attempts_sent[k].url = f_url
    /\ f_pc = "loop" => Len(attempts_sent) = attempt
    /\ f_pc = "returned" \/ ENABLED NextFetch
C22_Witness ==
    /\ f_pc = "returned"
    /\ f_content.none
    /\ max_retries = 2
    /\ Len(attempts_sent) = 3
    /\ attempts_sent[1].answer = "Timeout"
    /\ attempts_sent[2].answer = "500"
    /\ attempts_sent[3].answer = "ConnectionError"

\* C14: when a candidate page fetched for domain D holds a business-prefix
\* address at D (contact@D) and an address of an unrelated host
\* (support@platformhost.io), the result has exactly the address at D in
\* emails_found, success true and a discovery_method that starts with web_.
C14_OnDomainAddressOnly ==
    \A i \in 1..Len(cresults) :
        (/\ fetch_log # <<>>
         /\ fetch_log[Len(fetch_log)].phase = "sequential"
         /\ fetch_log[Len(fetch_log)].page = {<<"c", "o", "n", "t", "a", "c", "t", "@">> \o domain, <<"s", "u", "p", "p", "o", "r", "t", "@", "p", "l", "a", "t", "f", "o", "r", "m", "h", "o", "s", "t", ".", "i", "o">>}) =>
            /\ cresults[i].emails_found = <<<<"c", "o", "n", "t", "a", "c", "t", "@">> \o domain>>
            /\ cresults[i].success
            /\ cresults[i].discovery_method \in {"web_main", "web_contact", "web_about", "web_other"}

\* C16: within one run of process_files_with_callback the calls of
\* progress_callback carry a processed count and an emails count that never
\* decrease from one call to the next, and processed never exceeds total.
C16_ProgressMonotonic ==
    [][(mode = "process_files_with_callback" /\ progress' # <<>>) =>
          /\ progress'[1] <= progress'[2]
          /\ progress # <<>> => /\ progress'[1] >= progress[1]
                                /\ progress'[3] >= progress[3]
                                /\ progress'[2] = progress[2]]_vars
C16_Witness ==
    /\ mode = "process_files_with_callback"
    /\ pc = "ended"
    /\ current_session_count = 1
    /\ progress = <<2, 2, total_emails_found>>
    /\ total_emails_found > 0

\* C36: the processed count handed to progress_callback is never more than
\* the number of companies whose result was collected in the run, also in
\* the last call of a run that stopped early or in which a company raised.
C36_CallbackCountsCollected ==
    (mode = "process_files_with_callback" /\ progress # <<>>) => progress[1] <= current_session_count

(***************************************************************************)
(* EmailWorker.update_file_with_results (multi_worker.py): the file is     *)
(* read, the emails of the results are merged in by company name, and the  *)
(* file is written again.  Texts are TLA+ strings here.                    *)
(***************************************************************************)
MaxLines == 2
\* The results handed over: name and emails_found.
ResultLists ==
    {<<>>,
     <<[name |-> "Acme", emails_found |-> <<"contact@acme.fr", "info@acme.fr">>]>>,
     <<[name |-> "Acme", emails_found |-> <<>>], [name |-> "Bolt", emails_found |-> <<"contact@bolt.fr">>]>>}
\* results_lookup = {result['name']: result for result in results}
in_lookup(results, name) == \E i \in 1..Len(results) : results[i].name = name
lookup(results, name) ==
    results[CHOOSE i \in 1..Len(results) :
                results[i].name = name /\ \A j \in (i + 1)..Len(results) : results[j].name # name]

\* dict.get, with "" for an absent key.
get(dict, key) == IF key \in DOMAIN dict THEN dict[key] ELSE ""
\* company.get('name') or company.get('company_name') or company.get('raw_name', '')
name_in(company_data) ==
    IF get(company_data, "name") # "" THEN get(company_data, "name")
    ELSE IF get(company_data, "company_name") # "" THEN get(company_data, "company_name")
    ELSE get(company_data, "raw_name")

\* An NDJSON line: a blank line, text that is no JSON, or an object, written
\* tightly ("compact") or as json.dumps writes it ("dumps").
Companies ==
    {[name |-> "Acme", city |-> "Paris"],
     [company_name |-> "Bolt"],
     [name |-> "", raw_name |-> "Acme", emails_found |-> <<"old@acme.fr">>],
     [name |-> "Cime"]}
blank_line == [style |-> "blank", data |-> [name |-> ""]]
NdjsonLines ==
    {blank_line, [style |-> "invalid", data |-> [name |-> ""]]}
        \cup [style : {"compact", "dumps"}, data : Companies]
\* company['emails_found'] = company.get('emails_found') + result emails.
emails_extended(company_data, emails_found) ==
    IF "emails_found" \in DOMAIN company_data
    THEN [company_data EXCEPT !.emails_found = @ \o emails_found]
    ELSE [k \in DOMAIN company_data \cup {"emails_found"} |->
             IF k = "emails_found" THEN emails_found ELSE company_data[k]]
\* company['emails_found'] = result.get('emails_found', [])
emails_set(company_data, emails_found) ==
    [k \in DOMAIN company_data \cup {"emails_found"} |-> IF k = "emails_found" THEN emails_found ELSE company_data[k]]
update_company(company_data, results) ==
    IF in_lookup(results, name_in(company_data))
    THEN emails_set(company_data, lookup(results, name_in(company_data)).emails_found)
    ELSE company_data
\* The .ndjson branch: a line that json.loads refuses ends the call in the
\* except clause before the file is opened for writing.
update_ndjson(lines, results) ==
    LET original_data == SelectSeq(lines, LAMBDA l : l.style # "blank")
    IN  IF \E i \in 1..Len(original_data) : original_data[i].style = "invalid"
        THEN lines
        ELSE [i \in 1..Len(original_data) |->
                 [style |-> "dumps", data |-> update_company(original_data[i].data, results)]]

\* The cells pandas holds: a string, a number (int64 or float64) or NaN.
nan == [kind |-> "nan", s |-> "", n |-> 0]
str_cell(s) == [kind |-> "str", s |-> s, n |-> 0]
num_cell(kind, n) == [kind |-> kind, s |-> "", n |-> n]
NumberTexts == {"007", "7", "7.0", "12", "12.0"}
number_of(text) == IF text \in {"007", "7", "7.0"} THEN 7 ELSE 12
\* read_csv infers the type of a column from all its fields: int64 when
\* every field is a whole number, float64 when some are missing or have a
\* decimal point, else strings with NaN for the empty fields.
column_kind(texts) ==
    IF \A i \in 1..Len(texts) : texts[i] = "" THEN "float"
    ELSE IF \A i \in 1..Len(texts) : texts[i] \in NumberTexts \cup {""}
         THEN IF \E i \in 1..Len(texts) : texts[i] \in {"", "7.0", "12.0"} THEN "float" ELSE "int"
         ELSE "str"
read_field(text, kind) ==
    IF text = "" THEN nan
    ELSE IF kind = "str" THEN str_cell(text) ELSE num_cell(kind, number_of(text))
read_csv(sheet) ==
    [columns |-> sheet.header,
     rows |-> [i \in 1..Len(sheet.rows) |->
                  [j \in 1..Len(sheet.header) |->
                      read_field(sheet.rows[i][j],
                                 column_kind([k \in 1..Len(sheet.rows) |-> sheet.rows[k][j]]))]]]
\* to_csv(index=False)
write_field(cell) ==
    IF cell.kind = "nan" THEN ""
    ELSE IF cell.kind = "str" THEN cell.s
    ELSE IF cell.kind = "int" THEN ToString(cell.n)
    ELSE ToString(cell.n) \o ".0"
to_csv(df) ==
    [header |-> df.columns,
     rows |-> [i \in 1..Len(df.rows) |-> [j \in 1..Len(df.columns) |-> write_field(df.rows[i][j])]]]

column(df, name) == IF \E j \in 1..Len(df.columns) : df.columns[j] = name
                    THEN CHOOSE j \in 1..Len(df.columns) : df.columns[j] = name ELSE 0
\* row.get(name): None for a column the frame does not have.
truthy(df, row, name) ==
    /\ column(df, name) # 0
    /\ row[column(df, name)].kind \in {"nan", "num", "int", "float"} \/ row[column(df, name)].s # ""
\* row.get('name') or row.get('company_name') or row.get('raw_name', ''):
\* NaN is true, so an empty name field hides the other columns.
name_cell(df, row) ==
    IF truthy(df, row, "name") THEN row[column(df, "name")]
    ELSE IF truthy(df, row, "company_name") THEN row[column(df, "company_name")]
    ELSE IF column(df, "raw_name") # 0 THEN row[column(df, "raw_name")]
    ELSE str_cell("")
RECURSIVE joined(_)
joined(emails) ==
    IF emails = <<>> THEN ""
    ELSE IF Len(emails) = 1 THEN emails[1]
    ELSE emails[1] \o ", " \o joined(Tail(emails))
\* df['emails_found'] = '' and the loop over df.iterrows().
update_frame(df, results) ==
    LET with_column == IF column(df, "emails_found") # 0 THEN df
                       ELSE [columns |-> Append(df.columns, "emails_found"),
                             rows |-> [i \in 1..Len(df.rows) |-> Append(df.rows[i], str_cell(""))]]
        at == column(with_column, "emails_found")
    IN  [with_column EXCEPT !.rows =
            [i \in 1..Len(with_column.rows) |->
                [with_column.rows[i] EXCEPT ![at] =
                    IF name_cell(df, df.rows[i]).kind = "str" /\ in_lookup(results, name_cell(df, df.rows[i]).s)
                    THEN str_cell(joined(lookup(results, name_cell(df, df.rows[i]).s).emails_found))
                    ELSE str_cell("")]]]
update_csv(sheet, results) == to_csv(update_frame(read_csv(sheet), results))

CsvRows == {<<"Acme", "007">>, <<"Bolt", "">>, <<"", "12">>, <<"Cime", "n/a">>}
CsvHeaders == {<<"name", "employees">>, <<"company_name", "emails_found">>}
CsvSheets ==
    {[header |-> h, rows |-> r] : h \in CsvHeaders, r \in UNION {[1..n -> CsvRows] : n \in 1..MaxLines}}
\* A sheet of a workbook holds typed cells: read_excel gives NaN for an
\* empty cell and to_excel writes an empty cell for NaN.
read_excel(sheet) ==
    [columns |-> sheet.header,
     rows |-> [i \in 1..Len(sheet.rows) |->
                  [j \in 1..Len(sheet.header) |->
                      IF sheet.rows[i][j] = str_cell("") THEN nan ELSE sheet.rows[i][j]]]]
to_excel(df) == [header |-> df.columns, rows |-> df.rows]
update_excel(sheet, results) == to_excel(update_frame(read_excel(sheet), results))
ExcelRows == {<<str_cell("Acme"), num_cell("num", 7)>>, <<str_cell("Bolt"), str_cell("")>>,
              <<nan, num_cell("num", 12)>>}
ExcelSheets ==
    {[header |-> h, rows |-> r] : h \in CsvHeaders, r \in UNION {[1..n -> ExcelRows] : n \in 1..MaxLines}}

update_file_with_results(file, results, ext) ==
    IF ext = ".ndjson" THEN update_ndjson(file, results)
    ELSE IF ext = ".csv" THEN update_csv(file, results)
    ELSE update_excel(file, results)

InitUpdate ==
    /\ file_ext \in {".ndjson", ".csv", ".xlsx"}
    /\ file_content \in (IF file_ext = ".ndjson" THEN UNION {[1..n -> NdjsonLines] : n \in 1..MaxLines}
                         ELSE IF file_ext = ".csv" THEN CsvSheets ELSE ExcelSheets)
    /\ update_results \in ResultLists
    /\ applications = 0
    /\ content_history = <<>>
    /\ company_idle /\ batch_idle /\ checkpoint_idle /\ fetch_idle /\ later_idle

\* One call of update_file_with_results on the file.
UpdateFile ==
    /\ applications < 2
    /\ file_content' = update_file_with_results(file_content, update_results, file_ext)
    /\ content_history' = Append(content_history, file_content)
    /\ applications' = applications + 1
    /\ UNCHANGED <<company_vars, batch_vars, checkpoint_vars, fetch_vars, later_vars, file_ext, update_results>>

NextUpdate == UpdateFile

SpecUpdate == InitUpdate /\ [][NextUpdate]_vars

\* C15: update_file_with_results applied twice with the same results leaves
\* the same file content as applied once, for NDJSON, CSV and XLSX files.
C15_UpdateIdempotent ==
    applications = 2 => file_content = content_history[2]
C15_Witness ==
    /\ applications = 2
    /\ content_history[2] # content_history[1]
    /\ file_ext = ".csv"
    /\ \E i \in 1..Len(file_content.rows) :
          file_content.rows[i][Len(file_content.header)] = "contact@acme.fr, info@acme.fr"

(***************************************************************************)
(* The sitemap fallback of discover_emails_for_domain: which pages it      *)
(* fetches.  get_sitemap_urls names the sitemaps, parse_sitemap reads them *)
(* (a call stack stands for its recursion), get_priority_urls ranks the    *)
(* page URLs and process_url fetches the ranked ones.  What the fetched    *)
(* pages hold is the business of SitemapCollect above.                     *)
(***************************************************************************)
priority_patterns ==
    [high |-> {<<"c", "o", "n", "t", "a", "c", "t">>, <<"n", "o", "u", "s", "-", "c", "o", "n", "t", "a", "c", "t", "e", "r">>, <<"c", "o", "n", "t", "a", "c", "t", "e", "z", "-", "n", "o", "u", "s">>, <<"c", "o", "n", "t", "a", "c", "t", "-", "u", "s">>, <<"c", "o", "o", "r", "d", "o", "n", "n", "e", "e", "s">>, <<"n", "o", "u", "s", "-", "j", "o", "i", "n", "d", "r", "e">>},
     medium |-> {<<"a", "b", "o", "u", "t">>, <<"a", "b", "o", "u", "t", "-", "u", "s">>, <<"a", "-", "p", "r", "o", "p", "o", "s">>, <<"q", "u", "i", "-", "s", "o", "m", "m", "e", "s", "-", "n", "o", "u", "s">>, <<"t", "e", "a", "m">>, <<"e", "q", "u", "i", "p", "e">>, <<"n", "o", "t", "r", "e", "-", "e", "q", "u", "i", "p", "e">>, <<"s", "t", "a", "f", "f">>, <<"d", "i", "r", "e", "c", "t", "i", "o", "n">>},
     low |-> {<<"s", "e", "r", "v", "i", "c", "e", "s">>, <<"p", "r", "e", "s", "t", "a", "t", "i", "o", "n", "s">>, <<"o", "f", "f", "r", "e", "s">>, <<"l", "e", "g", "a", "l">>, <<"m", "e", "n", "t", "i", "o", "n", "s">>, <<"p", "o", "l", "i", "t", "i", "q", "u", "e">>, <<"p", "r", "i", "v", "a", "c", "y">>}]
\* The first tier with a keyword in the lower-cased URL.
category_of(page_url) ==
    LET url_lower == Lower(page_url) IN
    IF \E keyword \in priority_patterns.high : Contains(url_lower, keyword) THEN "high"
    ELSE IF \E keyword \in priority_patterns.medium : Contains(url_lower, keyword) THEN "medium"
    ELSE IF \E keyword \in priority_patterns.low : Contains(url_lower, keyword) THEN "low"
    ELSE "other"
tier_score == [high |-> 10, medium |-> 5, low |-> 2, other |-> 0]
\* len(url.split('/')) <= 4
short_url(page_url) == Len(Split(page_url, "/")) <= 4
\* '?' in url and len(url.split('?')[1]) > 50
long_query(page_url) == Contains(page_url, <<"?">>) /\ Len(Split(page_url, "?")[2]) > 50

\* Every tier with a keyword in the URL adds its points.
score_url_every_tier(page_url) ==
    LET url_lower == Lower(page_url)
        points(tier) == IF \E keyword \in priority_patterns[tier] : Contains(url_lower, keyword) THEN tier_score[tier] ELSE 0
    IN  [url |-> page_url,
         score |-> points("high") + points("medium") + points("low")
                   + (IF short_url(page_url) THEN 1 ELSE 0) - (IF long_query(page_url) THEN 2 ELSE 0),
         category |-> category_of(page_url)]
\* The tuple (url, score, category) of one URL (lines 1152-1187).
score_url(page_url) ==
    [url |-> page_url,
     score |-> tier_score[category_of(page_url)]
               + (IF short_url(page_url) THEN 1 ELSE 0) - (IF long_query(page_url) THEN 2 ELSE 0),
     category |-> category_of(page_url)]

\* url_scores.sort(key=lambda x: x[1], reverse=True): a stable sort, equal
\* scores keep the order of the list.
RECURSIVE sort_by_score(_)
sort_by_score(scored) ==
    IF scored = <<>> THEN <<>>
    ELSE LET rest == sort_by_score(Tail(scored))
             above == Cardinality({i \in 1..Len(rest) : rest[i].score > Head(scored).score})
         IN  SubSeq(rest, 1, above) \o <<Head(scored)>> \o SubSeq(rest, above + 1, Len(rest))

category_limits == [high |-> 3, medium |-> 2, low |-> 2, other |-> 1]
\* Every ranked URL is kept, whatever its category and their number.
RECURSIVE select_every_url(_, _, _)
select_every_url(scored, prioritized, category_counts) ==
    IF scored = <<>> THEN prioritized
    ELSE select_every_url(Tail(scored), Append(prioritized, Head(scored).url), category_counts)
\* The loop of lines 1197-1203 over the sorted url_scores.
RECURSIVE select_prioritized(_, _, _)
select_prioritized(scored, prioritized, category_counts) ==
    IF scored = <<>> THEN prioritized
    ELSE LET taken == category_counts[Head(scored).category] < category_limits[Head(scored).category]
             kept == IF taken THEN Append(prioritized, Head(scored).url) ELSE prioritized
             counted == IF taken THEN [category_counts EXCEPT ![Head(scored).category] = @ + 1] ELSE category_counts
         IN  IF Len(kept) >= 8 THEN kept ELSE select_prioritized(Tail(scored), kept, counted)

\* The list url_scores before it is sorted.
url_scores_of(page_urls) == [i \in 1..Len(page_urls) |-> score_url(page_urls[i])]
get_priority_urls(page_urls, for_domain) ==
    IF page_urls = <<>> THEN <<>>
    ELSE select_prioritized(sort_by_score(url_scores_of(page_urls)), <<>>,
                            [c \in {"high", "medium", "low", "other"} |-> 0])

\* The interpreter's recursion limit, counted in nested parse_sitemap calls.
RecursionLimit == 4
SitemapDomain == <<"a", "c", "m", "e", ".", "f", "r">>
Repeat(c, n) == [i \in 1..n |-> c]
page_at(path) == <<"h", "t", "t", "p", "s", ":", "/", "/", "a", "c", "m", "e", ".", "f", "r">> \o path
\* Page URLs a sitemap of the domain may list.
PageUrls ==
    << page_at(<<"/", "c", "o", "n", "t", "a", "c", "t">>), page_at(<<"/", "n", "o", "u", "s", "-", "c", "o", "n", "t", "a", "c", "t", "e", "r">>), page_at(<<"/", "f", "r", "/", "c", "o", "n", "t", "a", "c", "t", "-", "u", "s">>), page_at(<<"/", "c", "o", "o", "r", "d", "o", "n", "n", "e", "e", "s">>),
       page_at(<<"/", "a", "b", "o", "u", "t">>), page_at(<<"/", "e", "q", "u", "i", "p", "e", "/", "d", "i", "r", "e", "c", "t", "i", "o", "n">>), page_at(<<"/", "a", "-", "p", "r", "o", "p", "o", "s", "/", "c", "o", "n", "t", "a", "c", "t">>), page_at(<<"/", "s", "e", "r", "v", "i", "c", "e", "s">>),
       page_at(<<"/", "m", "e", "n", "t", "i", "o", "n", "s", "-", "l", "e", "g", "a", "l", "e", "s">>), page_at(<<"/", "p", "o", "l", "i", "t", "i", "q", "u", "e", "?", "l", "a", "n", "g", "=", "f", "r">>), page_at(<<"/", "b", "l", "o", "g">>), page_at(<<"/", "b", "l", "o", "g", "/", "2", "0", "2", "4", "/", "a", "r", "t", "i", "c", "l", "e">>),
       page_at(<<"/", "s", "e", "a", "r", "c", "h", "?">>) \o Repeat("q", 51), page_at(<<"/", "a", "/", "b", "/", "s", "e", "a", "r", "c", "h", "?">>) \o Repeat("q", 51),
       page_at(<<"/", "C", "o", "n", "t", "a", "c", "t", "?">>) \o Repeat("q", 50), page_at(<<"/", "p", "?", "a", "=", "1", "?">>) \o Repeat("q", 51),
       page_at(<<"/", "t", "e", "a", "m", "#">>) \o Repeat("q", 51) >>
first(list, n) == IF Len(list) > n THEN SubSeq(list, 1, n) ELSE list
sitemap_xml == page_at(<<"/", "s", "i", "t", "e", "m", "a", "p", ".", "x", "m", "l">>)
sitemap_1 == page_at(<<"/", "s", "i", "t", "e", "m", "a", "p", "-", "1", ".", "x", "m", "l">>)
sitemap_2 == page_at(<<"/", "s", "i", "t", "e", "m", "a", "p", "-", "2", ".", "x", "m", "l">>)
missing == [kind |-> "missing", locs |-> <<>>]
document(kind, locs) == [kind |-> kind, locs |-> locs]
\* A site: the sitemaps its robots.txt names and the document behind each
\* sitemap URL (an answer other than 200, a body that is no XML, a sitemap
\* index or a urlset, with the loc entries in document order).
site_of(robots, root, first_sub, second_sub) ==
    [robots |-> robots,
     docs |-> [u \in {sitemap_xml, sitemap_1, sitemap_2} |->
                  IF u = sitemap_xml THEN root ELSE IF u = sitemap_1 THEN first_sub ELSE second_sub]]
SiteSamples ==
    { site_of({}, document("urlset", first(PageUrls, 12)), missing, missing),
      site_of({}, document("urlset", PageUrls), missing, missing),
      site_of({}, document("urlset", SubSeq(PageUrls, 6, 17)), missing, missing),
      site_of({}, document("index", <<sitemap_1, sitemap_2>>),
              document("urlset", first(PageUrls, 7)), document("urlset", SubSeq(PageUrls, 6, 12))),
      site_of({}, document("index", <<sitemap_1>>), document("index", <<sitemap_2>>),
              document("urlset", first(PageUrls, 2))),
      site_of({}, document("index", <<sitemap_xml>>), missing, missing),
      site_of({}, document("index", <<sitemap_1>>), document("index", <<sitemap_xml, sitemap_2>>),
              document("urlset", first(PageUrls, 2))),
      site_of({sitemap_1, sitemap_2}, missing, document("urlset", <<PageUrls[1], PageUrls[11]>>),
              document("urlset", <<PageUrls[1], PageUrls[5]>>)),
      site_of({sitemap_1}, document("garbage", <<>>), document("garbage", <<>>), missing),
      site_of({}, missing, missing, missing) }
doc_at(sitemap_url) == IF sitemap_url \in DOMAIN site.docs THEN site.docs[sitemap_url] ELSE missing

InitSitemap ==
    /\ sm_pc = "sequential"
    /\ site \in SiteSamples
    /\ crawl_env \in CrawlEnvs(SitemapDomain)
    /\ sitemap_urls = <<>> /\ parse_stack = <<>> /\ sitemap_requests = <<>> /\ all_urls = <<>>
    /\ unique_urls = <<>> /\ url_scores = <<>> /\ sm_priority_urls = <<>> /\ crawl_fetches = <<>>
    /\ company_idle /\ batch_idle /\ checkpoint_idle /\ fetch_idle /\ update_idle /\ sitemap_others_idle

sitemap_rest == <<company_vars, batch_vars, checkpoint_vars, fetch_vars, update_vars, sitemap_others>>

\* The candidates the loop over test_urls fetches, from candidate i on.
RECURSIVE candidates_fetched(_, _, _, _)
candidates_fetched(d, for_domain, i, env) ==
    IF i > Len(test_urls(for_domain)) \/ d.all_emails # {} THEN <<>>
    ELSE <<[url |-> url_of(test_urls(for_domain)[i]), phase |-> "sequential"]>>
         \o candidates_fetched(sequential_step(d, test_urls(for_domain)[i], env.pages[i],
                                               extract_emails_from_html(env.pages[i], for_domain)),
                               for_domain, i + 1, env)

\* The sequential pass of discover_emails_for_domain, then line 1386.
SequentialPass ==
    /\ sm_pc = "sequential"
    /\ crawl_fetches' = candidates_fetched(discover_locals, SitemapDomain, 1, crawl_env)
    /\ sm_pc' = IF sitemap_needed(run_sequential(discover_locals, SitemapDomain, 1, crawl_env))
                THEN "lookup" ELSE "done"
    /\ UNCHANGED <<sitemap_rest, site, crawl_env, sitemap_urls, parse_stack, sitemap_requests, all_urls,
                   unique_urls, url_scores, sm_priority_urls>>

\* The set sitemap_urls of get_sitemap_urls: the URLs robots.txt names and
\* the common location that answered its HEAD request with 200.
sitemaps_found == site.robots \cup (IF site.docs[sitemap_xml].kind # "missing" THEN {sitemap_xml} ELSE {})
\* list(sitemap_urls)[:2]: two of the set at most, in the order of the set.
first_two(found) ==
    IF Cardinality(found) <= 1 THEN {SetToSeq(found)}
    ELSE {<<a, b>> : a, b \in found} \ {<<a, a>> : a \in found}

\* get_sitemap_urls; as_completed(futures, timeout=10) may give up, and the
\* TimeoutError leaves discover_emails_for_domain.  Without a sitemap the
\* fallback returns at once (line 1217).
GetSitemapUrls ==
    /\ sm_pc = "lookup"
    /\ IF crawl_env.sitemap_timeout
       THEN sm_pc' = "raised" /\ UNCHANGED sitemap_urls
       ELSE \E found \in first_two(sitemaps_found) :
               /\ sitemap_urls' = found
               /\ sm_pc' = IF found = <<>> THEN "done" ELSE "parse"
    /\ UNCHANGED <<sitemap_rest, site, crawl_env, parse_stack, sitemap_requests, all_urls,
                   unique_urls, url_scores, sm_priority_urls, crawl_fetches>>

called(sitemap_url) == [url |-> sitemap_url, state |-> "called", pending |-> <<>>, urls |-> <<>>]
\* A call of parse_sitemap returns: to the loop of line 1103, which keeps
\* five of the URLs, or to the loop of line 1222.
return_urls(callers, returned_urls) ==
    IF callers = <<>>
    THEN /\ parse_stack' = <<>>
         /\ all_urls' = all_urls \o returned_urls
    ELSE /\ parse_stack' = [callers EXCEPT ![Len(callers)].urls = @ \o first(returned_urls, 5)]
         /\ all_urls' = all_urls
callers_of_top == SubSeq(parse_stack, 1, Len(parse_stack) - 1)
top == parse_stack[Len(parse_stack)]

\* for sitemap_url in sitemap_urls: urls = parse_sitemap(sitemap_url)
ParseNext ==
    /\ sm_pc = "parse"
    /\ parse_stack = <<>>
    /\ sitemap_urls # <<>>
    /\ parse_stack' = <<called(Head(sitemap_urls))>>
    /\ sitemap_urls' = Tail(sitemap_urls)
    /\ UNCHANGED <<sitemap_rest, sm_pc, site, crawl_env, sitemap_requests, all_urls,
                   unique_urls, url_scores, sm_priority_urls, crawl_fetches>>

\* The body of parse_sitemap up to the loop over an index: the request, the
\* status, the XML.  Past the recursion limit the call raises inside its
\* try and its bare except returns [].
ParseOpen ==
    /\ sm_pc = "parse"
    /\ parse_stack # <<>>
    /\ top.state = "called"
    /\ IF Len(parse_stack) > RecursionLimit
       THEN /\ return_urls(callers_of_top, <<>>)
            /\ UNCHANGED sitemap_requests
       ELSE /\ sitemap_requests' = Append(sitemap_requests, [url |-> top.url, depth |-> Len(parse_stack)])
            /\ CASE doc_at(top.url).kind = "index" ->
                        /\ parse_stack' = [parse_stack EXCEPT ![Len(parse_stack)].state = "index",
                                                              ![Len(parse_stack)].pending = doc_at(top.url).locs]
                        /\ all_urls' = all_urls
                 [] doc_at(top.url).kind = "urlset" -> return_urls(callers_of_top, first(doc_at(top.url).locs, 15))
                 [] OTHER -> return_urls(callers_of_top, <<>>)
    /\ UNCHANGED <<sitemap_rest, sm_pc, site, crawl_env, sitemap_urls, unique_urls, url_scores,
                   sm_priority_urls, crawl_fetches>>

\* sub_urls = parse_sitemap(sitemap.text) for the next loc of an index.
ParseDescend ==
    /\ sm_pc = "parse"
    /\ parse_stack # <<>>
    /\ top.state = "index"
    /\ top.pending # <<>>
    /\ parse_stack' = Append([parse_stack EXCEPT ![Len(parse_stack)].pending = Tail(@)], called(Head(top.pending)))
    /\ UNCHANGED <<sitemap_rest, sm_pc, site, crawl_env, sitemap_urls, sitemap_requests, all_urls,
                   unique_urls, url_scores, sm_priority_urls, crawl_fetches>>

\* The loop over an index is over: return urls[:15].
ParseReturn ==
    /\ sm_pc = "parse"
    /\ parse_stack # <<>>
    /\ top.state = "index"
    /\ top.pending = <<>>
    /\ return_urls(callers_of_top, first(top.urls, 15))
    /\ UNCHANGED <<sitemap_rest, sm_pc, site, crawl_env, sitemap_urls, sitemap_requests,
                   unique_urls, url_scores, sm_priority_urls, crawl_fetches>>

\* The URLs of a list without repetition, in their order in the list.
RECURSIVE distinct(_)
distinct(list) ==
    IF list = <<>> THEN <<>>
    ELSE LET before == distinct(first(list, Len(list) - 1))
         IN  IF list[Len(list)] \in SeqToSet(before) THEN before ELSE Append(before, list[Len(list)])
reversed(list) == [i \in 1..Len(list) |-> list[Len(list) + 1 - i]]
\* list(set(all_urls)): the order of a set of strings is not the order of
\* the list; two of the orders it may have.
set_orders(list) == {distinct(list), reversed(distinct(list))}

\* Lines 1227-1228: the distinct URLs are ranked by get_priority_urls.
Prioritise ==
    /\ sm_pc = "parse"
    /\ parse_stack = <<>>
    /\ sitemap_urls = <<>>
    /\ \E order \in set_orders(all_urls) :
          /\ unique_urls' = order
          /\ url_scores' = url_scores_of(order)
          /\ sm_priority_urls' = get_priority_urls(order, SitemapDomain)
    /\ sm_pc' = "ranked"
    /\ UNCHANGED <<sitemap_rest, site, crawl_env, sitemap_urls, parse_stack, sitemap_requests, all_urls, crawl_fetches>>

sitemap_fetches == SelectSeq(crawl_fetches, LAMBDA f : f.phase = "sitemap")
\* executor.submit(process_url, url): the pool starts the calls in the
\* order of sm_priority_urls, each one fetches its URL.
ProcessUrl ==
    /\ sm_pc = "ranked"
    /\ Len(sitemap_fetches) < Len(sm_priority_urls)
    /\ crawl_fetches' = Append(crawl_fetches, [url |-> sm_priority_urls[Len(sitemap_fetches) + 1], phase |-> "sitemap"])
    /\ UNCHANGED <<sitemap_rest, sm_pc, site, crawl_env, sitemap_urls, parse_stack, sitemap_requests, all_urls,
                   unique_urls, url_scores, sm_priority_urls>>

\* Every future has run: discover_emails_via_sitemap returns.
FallbackReturns ==
    /\ sm_pc = "ranked"
    /\ Len(sitemap_fetches) = Len(sm_priority_urls)
    /\ sm_pc' = "done"
    /\ UNCHANGED <<sitemap_rest, site, crawl_env, sitemap_urls, parse_stack, sitemap_requests, all_urls,
                   unique_urls, url_scores, sm_priority_urls, crawl_fetches>>

NextSitemap ==
    \/ SequentialPass
    \/ GetSitemapUrls
    \/ ParseNext
    \/ ParseOpen
    \/ ParseDescend
    \/ ParseReturn
    \/ Prioritise
    \/ ProcessUrl
    \/ FallbackReturns

SpecSitemap == InitSitemap /\ [][NextSitemap]_vars


\* C25: parse_sitemap descends one level of sitemap index at most: the
\* sitemap it is called for and the sitemaps that one names are requested,
\* a sitemap named by a nested index (or by an index naming itself) is not,
\* so no call is nested deeper than two and no request is made at depth 3.
C25_OneIndexLevel ==
    /\ Len(parse_stack) <= 2
    /\ \A k \in 1..Len(sitemap_requests) : sitemap_requests[k].depth <= 2


pages_fetched == {sitemap_fetches[k].url : k \in 1..Len(sitemap_fetches)}
score_in(page_url) == (CHOOSE e \in SeqToSet(url_scores) : e.url = page_url).score
\* The place of a URL in the sitemaps as they were read.
discovered(page_url) == CHOOSE k \in 1..Len(all_urls) : all_urls[k] = page_url /\ \A j \in 1..(k - 1) : all_urls[j] # page_url
\* C26: the pages fetched in the sitemap fallback are the highest-scoring
\* sitemap URLs, eight of them or all when there are fewer; no URL is fetched
\* while one of a strictly higher score is left unfetched, and of two URLs
\* of equal score the one discovered earlier in the sitemap goes first.
C26_TopScoresFetched ==
    (sm_pc = "done" /\ unique_urls # <<>>) =>
        /\ Cardinality(pages_fetched) = Min(8, Len(unique_urls))
        /\ \A u \in pages_fetched : \A v \in SeqToSet(unique_urls) \ pages_fetched :
              /\ score_in(v) <= score_in(u)
              /\ score_in(v) = score_in(u) => discovered(u) < discovered(v)


\* A keyword of the tier occurs in the URL, whatever the case of its letters.
has_keyword(page_url, tier) ==
    \E keyword \in priority_patterns[tier] :
        \E i \in 1..(Len(page_url) - Len(keyword) + 1) : Lower(SubSeq(page_url, i, i + Len(keyword) - 1)) = keyword
\* The text after the first '?', up to a further '?' if there is one.
query_string(page_url) ==
    LET after == From(page_url, Find(page_url, <<"?">>) + 1)
    IN  IF ~Contains(page_url, <<"?">>) THEN <<>>
        ELSE IF Contains(after, <<"?">>) THEN SubSeq(after, 1, Find(after, <<"?">>) - 1) ELSE after
claimed_score(page_url) ==
    (IF has_keyword(page_url, "high") THEN 10
     ELSE IF has_keyword(page_url, "medium") THEN 5
     ELSE IF has_keyword(page_url, "low") THEN 2 ELSE 0)
    + (IF Count(page_url, "/") + 1 <= 4 THEN 1 ELSE 0)
    - (IF Len(query_string(page_url)) > 50 THEN 2 ELSE 0)
\* C27: get_priority_urls gives a URL 10 points for a high-priority
\* keyword, else 5 for a medium one, else 2 for a low one, one point more
\* when it has at most four '/'-separated parts and two less when its query
\* string is longer than 50 characters; the score is between -2 and 11.
C27_ScoreFormula ==
    (sm_pc = "ranked" /\ sitemap_fetches = <<>>) =>
        \A k \in 1..Len(url_scores) :
            /\ url_scores[k].score = claimed_score(url_scores[k].url)
            /\ url_scores[k].score >= -2
            /\ url_scores[k].score <= 11
scores_of(page_url) == {url_scores[k].score : k \in {j \in 1..Len(url_scores) : url_scores[j].url = page_url}}
C27_Witness ==
    /\ sm_pc = "ranked"
    /\ scores_of(PageUrls[7]) = {10}
    /\ scores_of(PageUrls[14]) = {-2}
    /\ scores_of(PageUrls[15]) = {11}
    /\ scores_of(PageUrls[12]) = {0}
    /\ scores_of(PageUrls[6]) = {5}


sequential_fetches == SelectSeq(crawl_fetches, LAMBDA f : f.phase = "sequential")
\* C28: for one company at most 6 candidate pages are fetched in the
\* sequential pass and at most 8 in the sitemap fallback, each URL of the
\* fallback once.
C28_FetchCeiling ==
    /\ Len(sequential_fetches) <= 6
    /\ Len(sitemap_fetches) <= 8
    /\ Cardinality(pages_fetched) = Len(sitemap_fetches)
    /\ Len(crawl_fetches) <= 6 + 8
C28_Witness ==
    /\ sm_pc = "done"
    /\ Len(sequential_fetches) = 6
    /\ Len(sitemap_fetches) = 8
    /\ Len(unique_urls) = 12


(***************************************************************************)
(* HTTPSessionManager, the module's one instance session_manager: callers  *)
(* on any thread take a session with get_session and hand it back with     *)
(* return_session.  Sessions are alike, so the model counts them.          *)
(***************************************************************************)
max_sessions == 200
\* min(10, max_sessions) sessions are made by __init__.
prepopulated == 10
\* Callers that hold a session at once: worker threads, and the four
\* threads of each sitemap fallback.
MaxCallers == 201

InitSessions ==
    /\ sessions = (IF prepopulated < max_sessions THEN prepopulated ELSE max_sessions)
    /\ checked_out = 0
    /\ putting = 0
    /\ company_idle /\ batch_idle /\ checkpoint_idle /\ fetch_idle /\ update_idle /\ session_others_idle

session_rest == <<company_vars, batch_vars, checkpoint_vars, fetch_vars, update_vars, session_others>>

\* get_session: a session of the queue if get_nowait finds one, a session
\* made on the spot when the queue is empty.
ManagerGetSession ==
    /\ checked_out + putting < MaxCallers
    /\ IF sessions > 0 THEN sessions' = sessions - 1 ELSE sessions' = sessions
    /\ checked_out' = checked_out + 1
    /\ UNCHANGED <<session_rest, putting>>

\* return_session, its test: with qsize() < max_sessions the session is to
\* be put back, else it is closed.  The lock of the manager is never taken.
ReturnSessionTest ==
    /\ checked_out > 0
    /\ checked_out' = checked_out - 1
    /\ putting' = IF sessions < max_sessions THEN putting + 1 ELSE putting
    /\ UNCHANGED <<session_rest, sessions>>

\* return_session, put_nowait on the unbounded queue.
ReturnSessionPut ==
    /\ putting > 0
    /\ putting' = putting - 1
    /\ sessions' = sessions + 1
    /\ UNCHANGED <<session_rest, checked_out>>

\* A caller whose request raises between get_session and return_session
\* (get_sitemap_urls, parse_sitemap) drops its session.
DropSession ==
    /\ checked_out > 0
    /\ checked_out' = checked_out - 1
    /\ UNCHANGED <<session_rest, sessions, putting>>

NextSessions ==
    \/ ManagerGetSession
    \/ ReturnSessionTest
    \/ ReturnSessionPut
    \/ DropSession

SpecSessions == InitSessions /\ [][NextSessions]_vars

\* C30: the sessions checked out of the manager at one time are never more
\* than max_sessions, however many callers are in flight.
C30_SessionsCapped ==
    checked_out + putting <= max_sessions


(***************************************************************************)
(* The callers of the session manager.  Four places take a session:        *)
(* fetch_website_content, the robots.txt lookup of get_sitemap_urls, its   *)
(* check_sitemap_url helper, and parse_sitemap.  Each calling thread takes *)
(* a session, sends its request, and goes through return_session or not.   *)
(***************************************************************************)
MaxPool == 2
MaxThreads == 3
Threads == 1..MaxThreads
CallSites == {"fetch_website_content", "get_sitemap_urls", "check_sitemap_url", "parse_sitemap"}

\* Queue.get_nowait takes the head of the queue out of it.
get_nowait_peek(queue) == [item |-> Head(queue), rest |-> queue]
get_nowait(queue) == [item |-> Head(queue), rest |-> Tail(queue)]

\* fetch_website_content returns its session in a finally block; the three
\* other call sites call return_session after the request, inside the try
\* whose except clause swallows what the request raised.
returns_after(call_site, raised) == call_site = "fetch_website_content" \/ ~raised

not_called == [pc |-> "start", session |-> 0, returns |-> 0, dropped_in |-> ""]

InitPool ==
    /\ pool_limit \in 1..MaxPool
    /\ idle_pool = [k \in 1..(IF prepopulated < pool_limit THEN prepopulated ELSE pool_limit) |-> k]
    /\ made = Len(idle_pool)
    /\ closed = {}
    /\ caller = [c \in Threads |-> not_called]
    /\ early_idle /\ pool_others_idle

pool_rest == <<early_vars, pool_others>>

\* get_session.
CallerGetSession(c) ==
    /\ caller[c].pc = "start"
    /\ IF idle_pool # <<>>
       THEN /\ caller' = [caller EXCEPT ![c] = [pc |-> "holding",
                                              session |-> get_nowait(idle_pool).item, returns |-> 0,
                                              dropped_in |-> ""]]
            /\ idle_pool' = get_nowait(idle_pool).rest
            /\ made' = made
       ELSE /\ caller' = [caller EXCEPT ![c] = [pc |-> "holding", session |-> made + 1, returns |-> 0,
                                              dropped_in |-> ""]]
            /\ made' = made + 1
            /\ idle_pool' = idle_pool
    /\ UNCHANGED <<pool_rest, pool_limit, closed>>

\* The request of the call site the thread is in answers or raises; then
\* return_session is entered, or the function leaves without it.
CallerRequest(c) ==
    /\ caller[c].pc = "holding"
    /\ \E call_site \in CallSites, raised \in BOOLEAN :
        caller' = IF returns_after(call_site, raised)
                  THEN [caller EXCEPT ![c].pc = "return_session"]
                  ELSE [caller EXCEPT ![c].pc = "left", ![c].dropped_in = call_site]
    /\ UNCHANGED <<pool_rest, pool_limit, idle_pool, made, closed>>

\* return_session, the test of qsize() against max_sessions: put back, or
\* close.
CallerReturnTest(c) ==
    /\ caller[c].pc = "return_session"
    /\ IF Len(idle_pool) < pool_limit
       THEN /\ caller' = [caller EXCEPT ![c].pc = "put_nowait", ![c].returns = @ + 1]
            /\ closed' = closed
       ELSE /\ caller' = [caller EXCEPT ![c].pc = "left", ![c].returns = @ + 1]
            /\ closed' = closed \cup {caller[c].session}
    /\ UNCHANGED <<pool_rest, pool_limit, idle_pool, made>>

\* return_session, put_nowait.
CallerReturnPut(c) ==
    /\ caller[c].pc = "put_nowait"
    /\ idle_pool' = Append(idle_pool, caller[c].session)
    /\ caller' = [caller EXCEPT ![c].pc = "left"]
    /\ UNCHANGED <<pool_rest, pool_limit, made, closed>>

NextPool ==
    \E c \in Threads :
        \/ CallerGetSession(c)
        \/ CallerRequest(c)
        \/ CallerReturnTest(c)
        \/ CallerReturnPut(c)

SpecPool == InitPool /\ [][NextPool]_vars

holds(c) == caller[c].pc \in {"holding", "return_session", "put_nowait"}

\* C31: under every interleaving of get_session and return_session no
\* session is held by two callers at once, and the queue of idle sessions
\* never holds a session twice.
C31_SessionsExclusive ==
    /\ \A c, d \in Threads : (c # d /\ holds(c) /\ holds(d)) => caller[c].session # caller[d].session
    /\ \A i, j \in 1..Len(idle_pool) : i # j => idle_pool[i] # idle_pool[j]
    /\ \A c \in Threads : holds(c) => \A i \in 1..Len(idle_pool) : idle_pool[i] # caller[c].session

\* Two threads hold sessions at once, one of which went through the queue
\* and was handed out a second time.
C31_Witness ==
    \E c, d \in Threads :
        /\ c # d /\ holds(c) /\ holds(d)
        /\ caller[c].session <= pool_limit
        /\ caller[d].pc = "put_nowait"
        /\ \E e \in Threads : caller[e].pc = "left" /\ caller[e].returns = 1
                               /\ caller[e].session = caller[c].session


\* C35: every session obtained from get_session is handed back through
\* return_session exactly once on every path, also when the request raises.
C35_EverySessionReturned ==
    \A c \in Threads : caller[c].pc = "left" => caller[c].returns = 1


(***************************************************************************)
(* PerformanceMonitor.record_company_processing, called by every worker    *)
(* thread on the one monitor of the run.  `self.total_count += 1` reads    *)
(* the attribute, adds, and stores it back; no lock is held, so another    *)
(* thread may run between the read and the store.                          *)
(***************************************************************************)
MaxRecorded == 4

not_recording == [pc |-> "worker", loaded |-> 0, has_emails |-> FALSE]

InitMonitor ==
    /\ total_count = 0
    /\ success_count = 0
    /\ recording = [w \in Threads |-> not_recording]
    /\ record_calls = <<>>
    /\ early_idle /\ monitor_others_idle

monitor_rest == <<early_vars, monitor_others>>

\* process_single_company_worker calls monitor.record_company_processing
\* with the emails of its result.
RecordCompanyProcessing(w) ==
    /\ recording[w].pc = "worker"
    /\ Len(record_calls) < MaxRecorded
    /\ \E has_emails \in BOOLEAN :
        /\ recording' = [recording EXCEPT ![w] = [pc |-> "total_count", loaded |-> total_count,
                                                  has_emails |-> has_emails]]
        /\ record_calls' = Append(record_calls, has_emails)
    /\ UNCHANGED <<monitor_rest, total_count, success_count>>

\* self.total_count += 1, the store; then the read of success_count when
\* email_count > 0.
StoreTotalCount(w) ==
    /\ recording[w].pc = "total_count"
    /\ total_count' = recording[w].loaded + 1
    /\ recording' = [recording EXCEPT ![w] =
                        IF recording[w].has_emails
                        THEN [@ EXCEPT !.pc = "success_count", !.loaded = success_count]
                        ELSE not_recording]
    /\ UNCHANGED <<monitor_rest, success_count, record_calls>>

\* self.success_count += 1, the store.
StoreSuccessCount(w) ==
    /\ recording[w].pc = "success_count"
    /\ success_count' = recording[w].loaded + 1
    /\ recording' = [recording EXCEPT ![w] = not_recording]
    /\ UNCHANGED <<monitor_rest, total_count, record_calls>>

NextMonitor ==
    \E w \in Threads :
        \/ RecordCompanyProcessing(w)
        \/ StoreTotalCount(w)
        \/ StoreSuccessCount(w)

SpecMonitor == InitMonitor /\ [][NextMonitor]_vars

with_emails(calls) == Cardinality({k \in 1..Len(calls) : calls[k]})

\* C32: once every call of record_company_processing has ended, total_count
\* is the number of calls and success_count the number of those with
\* emails, whatever the interleaving of the worker threads.
C32_NoLostUpdate ==
    (\A w \in Threads : recording[w].pc = "worker") =>
        /\ total_count = Len(record_calls)
        /\ success_count = with_emails(record_calls)


(***************************************************************************)
(* EmailWorker.process_file_directly (multi_worker.py): the companies of   *)
(* the file are read once, processed batch by batch, and after each batch  *)
(* update_file_with_results is called with that batch's valid results.     *)
(* The per-company coroutine is not part of the sources; its result is a   *)
(* dict with the company's name and emails_found, or an exception.         *)
(***************************************************************************)
MaxDirectRows == 3
MaxDirectBatch == 2
DirectNames == <<"Acme", "Bolt", "Cime", "Dune">>
DirectEmails == {<<>>, <<"contact@site.fr">>, <<"contact@site.fr", "info@site.fr">>}
\* What asyncio.gather(..., return_exceptions=True) holds for a company.
GatherOutcomes ==
    {[raised |-> TRUE, emails_found |-> <<>>]} \cup [raised : {FALSE}, emails_found : DirectEmails]

direct_file_of(ext, n) ==
    IF ext = ".ndjson"
    THEN [k \in 1..n |-> [style |-> "compact", data |-> [name |-> DirectNames[k], city |-> "Paris"]]]
    ELSE IF ext = ".csv"
    THEN [header |-> <<"name", "city">>, rows |-> [k \in 1..n |-> <<DirectNames[k], "Paris">>]]
    ELSE [header |-> <<"name", "city">>,
          rows |-> [k \in 1..n |-> <<str_cell(DirectNames[k]), str_cell("Paris")>>]]

\* companies, as read at the start of process_file_directly.
company_count(file, ext) == IF ext = ".ndjson" THEN Len(file) ELSE Len(file.rows)
company_name(file, ext, k) ==
    IF ext = ".ndjson" THEN name_in(file[k].data)
    ELSE IF ext = ".csv" THEN file.rows[k][1]
    ELSE file.rows[k][1].s

InitDirect ==
    /\ direct_ext \in {".ndjson", ".csv", ".xlsx"}
    /\ \E n \in 1..MaxDirectRows : direct_file = direct_file_of(direct_ext, n)
    /\ direct_batch_size \in 1..MaxDirectBatch
    /\ direct_i = 0
    /\ valid_results = <<>>
    /\ early_idle /\ direct_others_idle

direct_rest == <<early_vars, direct_others>>

\* for i in range(0, len(companies), batch_size): the batch is processed,
\* the results that are dicts are kept, and the file is updated with them.
ProcessBatch ==
    /\ direct_ext # ""
    /\ direct_i < company_count(direct_file, direct_ext)
    /\ LET last == IF direct_i + direct_batch_size < company_count(direct_file, direct_ext)
                   THEN direct_i + direct_batch_size ELSE company_count(direct_file, direct_ext)
           batch == [k \in 1..(last - direct_i) |-> company_name(direct_file, direct_ext, direct_i + k)]
       IN  \E results \in [1..Len(batch) -> GatherOutcomes] :
               LET is_dict(k) == ~results[k].raised
                   dicts == SelectSeq([k \in 1..Len(batch) |-> k], is_dict)
                   batch_results == [j \in 1..Len(dicts) |->
                                        [name |-> batch[dicts[j]], emails_found |-> results[dicts[j]].emails_found]]
               IN  /\ direct_file' = update_file_with_results(direct_file, batch_results, direct_ext)
                   /\ valid_results' = valid_results \o batch_results
    /\ direct_i' = direct_i + direct_batch_size
    /\ UNCHANGED <<direct_rest, direct_ext, direct_batch_size>>

NextDirect == ProcessBatch

SpecDirect == InitDirect /\ [][NextDirect]_vars

column_of(file, name) ==
    IF \E j \in 1..Len(file.header) : file.header[j] = name
    THEN CHOOSE j \in 1..Len(file.header) : file.header[j] = name ELSE 0
\* The emails a row of the file carries.
emails_of_row(file, ext, k) ==
    IF ext = ".ndjson" THEN joined(get(file[k].data, "emails_found"))
    ELSE IF ext = ".csv" THEN file.rows[k][column_of(file, "emails_found")]
    ELSE file.rows[k][column_of(file, "emails_found")].s


\* C34: after the last batch the row of every processed company carries the
\* emails of its result, whichever batch the company was in, for CSV and
\* XLSX files as for NDJSON files.
C34_EarlierBatchesKept ==
    direct_i >= company_count(direct_file, direct_ext) =>
        \A r \in 1..Len(valid_results) :
            \A k \in 1..company_count(direct_file, direct_ext) :
                company_name(direct_file, direct_ext, k) = valid_results[r].name =>
                    emails_of_row(direct_file, direct_ext, k) = joined(valid_results[r].emails_found)


(***************************************************************************)
(* The queue workers: AsyncEmailWorker (async_email_worker.py) and         *)
(* EmailWorker (multi_worker.py).  run takes a message of the email-jobs   *)
(* topic, calls process_job on its data, and commits the offset.           *)
(***************************************************************************)
MaxFiles == 3
FileNames == {"a.csv", "b.csv"}
\* The two job formats: files_processed with the list of files, file_path
\* with the one file; and a message with neither.
JobMessages ==
    {[format |-> "files_processed", files |-> f, start_time |-> s] :
        f \in UNION {[1..n -> FileNames] : n \in 0..MaxFiles}, s \in BOOLEAN}
        \cup {[format |-> "file_path", files |-> <<f>>, start_time |-> TRUE] : f \in FileNames}
        \cup {[format |-> "other", files |-> <<>>, start_time |-> TRUE]}

\* files.index(file_path): the first position of the file in the list,
\* counted from 0.
index(files, file_path) == (CHOOSE k \in 1..Len(files) :
                               files[k] = file_path /\ \A j \in 1..(k - 1) : files[j] # file_path) - 1
\* (len(files) - files.index(file_path) - 1) / len(files) * 100, as a
\* fraction.
progress_percent(files, file_path) ==
    [num |-> (Len(files) - index(files, file_path) - 1) * 100, den |-> Len(files)]

InitJob ==
    /\ worker_class \in {"AsyncEmailWorker", "EmailWorker"}
    /\ job_data \in JobMessages
    /\ job_pc = "message"
    /\ file_index = 0
    /\ job_events = <<>>
    /\ progress_updates = <<>>
    /\ early_idle /\ job_others_idle

job_rest == <<early_vars, job_others>>

\* The format a worker's process_job reads.
format_read(class) == IF class = "AsyncEmailWorker" THEN "files_processed" ELSE "file_path"

\* run: the message is parsed and process_job is entered.  AsyncEmailWorker
\* reads job_data["files_processed"] before its try block, so another
\* format raises KeyError into run, which logs it and does not commit.
\* EmailWorker returns at once from a job that has no file_path.
EnterProcessJob ==
    /\ job_pc = "message"
    /\ job_pc' = IF job_data.format = format_read(worker_class) THEN "try"
                 ELSE IF worker_class = "EmailWorker" THEN "commit"
                 ELSE "next_message"
    /\ UNCHANGED <<job_rest, worker_class, job_data, file_index, job_events, progress_updates>>

\* send_job_status(job_id, JOB_STATUS["RUNNING"])
SendRunning ==
    /\ job_pc = "try"
    /\ job_events' = Append(job_events, "running")
    /\ job_pc' = IF worker_class = "AsyncEmailWorker" THEN "files" ELSE "process_file_directly"
    /\ UNCHANGED <<job_rest, worker_class, job_data, file_index, progress_updates>>

\* AsyncEmailWorker: for file_path in files: process_file returns its
\* counts, and the progress update is sent; or process_file raises.
ProcessFile ==
    /\ job_pc = "files"
    /\ file_index < Len(job_data.files)
    /\ \E raised \in BOOLEAN :
        IF raised
        THEN /\ job_pc' = "except"
             /\ job_events' = Append(job_events, "process_file")
             /\ UNCHANGED <<file_index, progress_updates>>
        ELSE /\ file_index' = file_index + 1
             /\ job_events' = Append(job_events, "process_file")
             /\ progress_updates' = Append(progress_updates,
                                           progress_percent(job_data.files, job_data.files[file_index + 1]))
             /\ job_pc' = job_pc
    /\ UNCHANGED <<job_rest, worker_class, job_data>>

\* AsyncEmailWorker after the loop: the file update, the job result and
\* the COMPLETED status; job_data["start_time"] raises KeyError when the
\* job has none.
SendCompleted ==
    /\ job_pc = "files"
    /\ file_index = Len(job_data.files)
    /\ IF job_data.start_time
       THEN job_events' = Append(job_events, "completed") /\ job_pc' = "commit"
       ELSE job_events' = job_events /\ job_pc' = "except"
    /\ UNCHANGED <<job_rest, worker_class, job_data, file_index, progress_updates>>

\* EmailWorker: process_file_directly answers True or False, or raises
\* before its own try block; COMPLETED or FAILED is sent accordingly.
ProcessFileDirectly ==
    /\ job_pc = "process_file_directly"
    /\ \E outcome \in {"True", "False", "raised"} :
        /\ job_events' = job_events \o <<"process_file", IF outcome = "True" THEN "completed" ELSE "failed">>
    /\ job_pc' = "commit"
    /\ UNCHANGED <<job_rest, worker_class, job_data, file_index, progress_updates>>

\* except Exception: the FAILED status.
SendFailed ==
    /\ job_pc = "except"
    /\ job_events' = Append(job_events, "failed")
    /\ job_pc' = "commit"
    /\ UNCHANGED <<job_rest, worker_class, job_data, file_index, progress_updates>>

\* run: await self.consumer.commit()
CommitOffset ==
    /\ job_pc = "commit"
    /\ job_events' = Append(job_events, "commit")
    /\ job_pc' = "next_message"
    /\ UNCHANGED <<job_rest, worker_class, job_data, file_index, progress_updates>>

NextJob ==
    \/ EnterProcessJob
    \/ SendRunning
    \/ ProcessFile
    \/ SendCompleted
    \/ ProcessFileDirectly
    \/ SendFailed
    \/ CommitOffset

SpecJob == InitJob /\ [][NextJob]_vars

at_most(p, q) == p.num * q.den <= q.num * p.den

\* C33: over a job with several files the progress_percent values of the
\* successive progress updates never decrease, and the update sent after
\* the last file reports 100.
C33_ProgressAscends ==
    (worker_class = "AsyncEmailWorker" /\ Len(job_data.files) >= 2) =>
        /\ \A k \in 1..(Len(progress_updates) - 1) : at_most(progress_updates[k], progress_updates[k + 1])
        /\ Len(progress_updates) = Len(job_data.files) =>
               progress_updates[Len(progress_updates)].num = 100 * progress_updates[Len(progress_updates)].den


terminal(events) == SelectSeq(events, LAMBDA e : e \in {"completed", "failed"})

\* C38: for every job message a worker consumes, the worker sends RUNNING
\* before any processing and then exactly one of COMPLETED and FAILED
\* before the offset of the message is committed.
C38_OneTerminalStatus ==
    (job_events # <<>> /\ job_events[Len(job_events)] = "commit") =>
        /\ job_events[1] = "running"
        /\ Len(terminal(job_events)) = 1


(***************************************************************************)
(* MultiWorkerManager (multi_worker.py): num_workers EmailWorkers in one   *)
(* process, each with its own consumer on the email-jobs topic.  The       *)
(* broker hands every message of a topic to each consumer group once, to   *)
(* the member of the group that owns the partition.                        *)
(***************************************************************************)
MaxManagerWorkers == 3
MaxJobs == 2
ManagerWorkers == 1..MaxManagerWorkers

\* get_consumer_config(group_id): the group_id given replaces the one of
\* CONSUMER_CONFIG.
get_consumer_config(group_id) == IF group_id # <<>> THEN group_id ELSE <<"email-scraper-workers">>
\* EmailWorker.start: get_consumer_config(f"email-worker-{self.worker_id}")
group_of(w) == get_consumer_config(<<"email-worker-", w>>)
Groups == {group_of(w) : w \in ManagerWorkers}
\* The member of a group that the partition is assigned to.
owner(group) == CHOOSE w \in ManagerWorkers : group_of(w) = group /\ \A v \in ManagerWorkers : group_of(v) = group => w <= v

InitManager ==
    /\ topic = <<>>
    /\ offsets = [g \in Groups |-> 0]
    /\ handling = [w \in ManagerWorkers |-> 0]
    /\ taken_by = [j \in 1..MaxJobs |-> {}]
    /\ early_idle /\ manager_others_idle

manager_rest == <<early_vars, manager_others>>

\* A job is sent to the email-jobs topic.
SubmitJob ==
    /\ Len(topic) < MaxJobs
    /\ topic' = Append(topic, Len(topic) + 1)
    /\ UNCHANGED <<manager_rest, offsets, handling, taken_by>>

\* EmailWorker.run: the consumer of worker w yields the next message of
\* its group, and process_job starts on it.
TakeJob(w) ==
    /\ handling[w] = 0
    /\ owner(group_of(w)) = w
    /\ offsets[group_of(w)] < Len(topic)
    /\ handling' = [handling EXCEPT ![w] = topic[offsets[group_of(w)] + 1]]
    /\ taken_by' = [taken_by EXCEPT ![topic[offsets[group_of(w)] + 1]] = @ \cup {w}]
    /\ UNCHANGED <<manager_rest, topic, offsets>>

\* process_job has rewritten the file and returns; the offset is committed.
FinishJob(w) ==
    /\ handling[w] # 0
    /\ offsets' = [offsets EXCEPT ![group_of(w)] = @ + 1]
    /\ handling' = [handling EXCEPT ![w] = 0]
    /\ UNCHANGED <<manager_rest, topic, taken_by>>

NextManager ==
    \/ SubmitJob
    \/ \E w \in ManagerWorkers : TakeJob(w) \/ FinishJob(w)

SpecManager == InitManager /\ [][NextManager]_vars

\* C39: with N workers running, each job of the topic is processed by one
\* worker only, so no two workers rewrite the file of a job at one time.
C39_OneWorkerPerJob ==
    /\ \A j \in 1..MaxJobs : Cardinality(taken_by[j]) <= 1
    /\ \A v, w \in ManagerWorkers : (v # w /\ handling[v] # 0) => handling[v] # handling[w]


(***************************************************************************)
(* The API (app.py): a request registers a job in active_jobs and starts   *)
(* a background task with asyncio.create_task; the task processes the     *)
(* companies batch by batch and sets the final status of the job.          *)
(***************************************************************************)
MaxApiJobs == 2
MaxApiBatches == 2
Endpoints == {"process_file", "process_files_zip", "process_files_folder"}

InitApi ==
    /\ active_jobs = <<>>
    /\ handlers = <<>>
    /\ tasks = <<>>
    /\ early_idle /\ api_others_idle

api_rest == <<early_vars, api_others>>

\* The status a handler registers its job with: process_files_folder
\* registers before it looks for files, the two upload handlers after.
registered_status(endpoint) == IF endpoint = "process_files_folder" THEN "initializing" ELSE "running"

\* A request whose parameters are valid: the job is created and stored in
\* active_jobs.
RegisterJob ==
    /\ Len(active_jobs) < MaxApiJobs
    /\ \E endpoint \in Endpoints :
        /\ active_jobs' = Append(active_jobs, [status |-> registered_status(endpoint), progress |-> [num |-> 0, den |-> 1], endpoint |-> endpoint])
        /\ handlers' = Append(handlers, "registered")
        /\ tasks' = Append(tasks, [pc |-> "none", i |-> 0, total |-> 0])
    /\ UNCHANGED api_rest

\* The rest of the handler.  process_files_folder collects the files of
\* the folder: with none it raises HTTPException, which its except clause
\* turns into a 500 answer; with some it sets the status to running.  Then
\* the task is created and the handler returns.
HandlerReturns(j) ==
    /\ j \in 1..Len(handlers)
    /\ handlers[j] = "registered"
    /\ \E files_found \in BOOLEAN :
        IF active_jobs[j].endpoint = "process_files_folder" /\ ~files_found
        THEN /\ handlers' = [handlers EXCEPT ![j] = "raised"]
             /\ UNCHANGED <<active_jobs, tasks>>
        ELSE /\ handlers' = [handlers EXCEPT ![j] = "returned"]
             /\ active_jobs' = [active_jobs EXCEPT ![j].status = "running"]
             /\ tasks' = [tasks EXCEPT ![j].pc = "created"]
    /\ UNCHANGED api_rest

\* process_file_with_scraper / process_folder_with_scraper up to the batch
\* loop: the companies are loaded, or loading raises.
TaskStarts(j) ==
    /\ j \in 1..Len(tasks)
    /\ tasks[j].pc = "created"
    /\ \E raised \in BOOLEAN, total \in 0..MaxApiBatches :
        IF raised
        THEN /\ active_jobs' = [active_jobs EXCEPT ![j].status = "failed"]
             /\ tasks' = [tasks EXCEPT ![j].pc = "ended"]
        ELSE /\ tasks' = [tasks EXCEPT ![j] = [pc |-> "batches", i |-> 0, total |-> total]]
             /\ UNCHANGED active_jobs
    /\ UNCHANGED <<api_rest, handlers>>

\* One batch: the progress is stored and scrape_companies_batch is awaited;
\* what it raises is caught by the except clause of the task.
TaskBatch(j) ==
    /\ j \in 1..Len(tasks)
    /\ tasks[j].pc = "batches"
    /\ tasks[j].i < tasks[j].total
    /\ \E raised \in BOOLEAN :
        LET batch_progress == [num |-> tasks[j].i, den |-> tasks[j].total] IN
        IF raised
        THEN /\ active_jobs' = [active_jobs EXCEPT ![j].progress = batch_progress, ![j].status = "failed"]
             /\ tasks' = [tasks EXCEPT ![j].pc = "ended"]
        ELSE /\ active_jobs' = [active_jobs EXCEPT ![j].progress = batch_progress]
             /\ tasks' = [tasks EXCEPT ![j].i = @ + 1]
    /\ UNCHANGED <<api_rest, handlers>>

\* After the loop: the input files are updated and the job is completed,
\* or the update raises and the job is failed.
TaskEnds(j) ==
    /\ j \in 1..Len(tasks)
    /\ tasks[j].pc = "batches"
    /\ tasks[j].i = tasks[j].total
    /\ \E raised \in BOOLEAN :
        active_jobs' = IF raised
                       THEN [active_jobs EXCEPT ![j].status = "failed"]
                       ELSE [active_jobs EXCEPT ![j].status = "completed", ![j].progress = [num |-> 1, den |-> 1]]
    /\ tasks' = [tasks EXCEPT ![j].pc = "ended"]
    /\ UNCHANGED <<api_rest, handlers>>

NextApi ==
    \/ RegisterJob
    \/ \E j \in 1..MaxApiJobs : HandlerReturns(j) \/ TaskStarts(j) \/ TaskBatch(j) \/ TaskEnds(j)

SpecApi == InitApi /\ [][NextApi]_vars

\* A job that is completed or failed keeps its status.
FinalStatusKept ==
    [][\A j \in 1..Len(active_jobs) :
          active_jobs[j].status \in {"completed", "failed"} => active_jobs'[j].status = active_jobs[j].status]_vars

\* C40: a job of active_jobs whose request handler has ended and whose
\* background task has ended, or was never created, has status completed
\* or failed: no job stays initializing or running.
C40_JobsReachFinalStatus ==
    \A j \in 1..Len(active_jobs) :
        (handlers[j] \in {"returned", "raised"} /\ tasks[j].pc \in {"none", "ended"}) =>
              active_jobs[j].status \in {"completed", "failed"}
====
